---- MODULE Spec2Model ----
(***************************************************************************)
(* State-machine model of the Dex graph application (src/app.js): the     *)
(* persona life cycle, the render pass (renderGraph), the frame-driven     *)
(* force simulation (tick), the pointer/zoom handlers and the selection    *)
(* state.                                                                  *)
(*                                                                         *)
(* Numbers.  JavaScript numbers are modelled exactly as rationals          *)
(* <<num, den>> in lowest terms (den > 0) wherever the code only adds,     *)
(* multiplies, divides and compares (view transform, drag, hit test).      *)
(* The force simulation takes a square root, so a tick is computed in      *)
(* fixed point with Unit steps per pixel, rounding after every division.   *)
(*                                                                         *)
(* References.  A SimNode reference is the node's index in `nodes`         *)
(* (0 = null / undefined); animation-frame handles are positive integers   *)
(* (0 = null).  The string "null" stands for a null node id.               *)
(***************************************************************************)
EXTENDS Integers, Sequences, FiniteSets, TLC

----------------------------------------------------------------------------
(* Bounds of the model *)

MaxFetch == 2        \* community-data fetches in flight at once
MaxInput == 2        \* wheel and pointer-move events handled per render pass
MaxWatch == 1        \* watchlist length
MaxDiag == 1         \* console reports of a failed community load
MaxLinks == 2        \* links of an enumerated link list
MaxCoord == 2        \* largest coordinate of an enumerated point
MaxAuth == 2         \* signed-out notifications, submits of the sign-in form

(* Rendering surface (graphContainerEl.clientWidth / clientHeight) *)
Width == 200
Height == 200

(* Fixed-point resolution: grid steps per pixel, steps of the projection
   parameter of the hit test *)
Unit == 10
TSteps == 16

----------------------------------------------------------------------------
(* Exact rational arithmetic *)

Abs(x) == IF x < 0 THEN -x ELSE x

RECURSIVE GCD(_, _)
GCD(a, b) == IF b = 0 THEN a ELSE GCD(b, a % b)

Rat(n, d) ==
  LET s == IF d < 0 THEN -1 ELSE 1
      g == GCD(Abs(n), Abs(d))
  IN  <<(s * n) \div g, (s * d) \div g>>

RInt(n) == <<n, 1>>
RAdd(a, b) == Rat(a[1] * b[2] + b[1] * a[2], a[2] * b[2])
RSub(a, b) == Rat(a[1] * b[2] - b[1] * a[2], a[2] * b[2])
RMul(a, b) == Rat(a[1] * b[1], a[2] * b[2])
RDiv(a, b) == Rat(a[1] * b[2], a[2] * b[1])
RLt(a, b) == a[1] * b[2] < b[1] * a[2]
RLe(a, b) == a[1] * b[2] <= b[1] * a[2]
RMax(a, b) == IF RLt(a, b) THEN b ELSE a
RMin(a, b) == IF RLt(b, a) THEN b ELSE a

(* Fixed point: a rational on the 1/Unit grid as an integer and back *)
ToFix(r) == (r[1] * Unit) \div r[2]
FromFix(n) == Rat(n, Unit)

(* a / b rounded to the nearest integer, b > 0 *)
RoundDiv(a, b) == (a + (b \div 2)) \div b

RECURSIVE SqrtSearch(_, _, _)
SqrtSearch(n, lo, hi) ==
  IF lo >= hi THEN lo
  ELSE LET mid == (lo + hi + 1) \div 2
       IN  IF mid * mid <= n THEN SqrtSearch(n, mid, hi)
           ELSE SqrtSearch(n, lo, mid - 1)

(* floor of the square root *)
ISqrt(n) == SqrtSearch(n, 0, IF n < 46340 THEN n ELSE 46340)

----------------------------------------------------------------------------
(* Datasets (window.DEX_DATA): node and link descriptors *)

Null == "null"

DNode(i, c) == [id |-> i, category |-> c]

(* the value read from a property a descriptor does not have *)
Undefined == <<0, 0>>

(* a node descriptor with a size *)
SizedNode(i, c, size) == [id |-> i, category |-> c, size |-> size]
DLink(s, t) == [source |-> s, target |-> t]

(* well-formed datasets, as the one shipped in data.js: every link joins
   two nodes of the node list *)
PairDataset ==
  [nodes |-> <<DNode("a", "startup"), DNode("b", "investor")>>,
   links |-> <<DLink("a", "b")>>]

(* two nodes of one category, a link from a node to itself and a link
   between the two *)
SelfLoopDataset ==
  [nodes |-> <<DNode("a", "startup"), DNode("b", "startup")>>,
   links |-> <<DLink("a", "a"), DLink("a", "b")>>]

(* no nodes and no links *)
EmptyDataset == [nodes |-> <<>>, links |-> <<>>]

(* a dataset without links *)
LinklessDataset ==
  [nodes |-> <<DNode("a", "startup"), DNode("b", "investor")>>,
   links |-> <<>>]

ValidDatasets ==
  { PairDataset,
    [nodes |-> <<DNode("a", "startup"), DNode("b", "investor"),
                 DNode("c", "startup")>>,
     links |-> <<DLink("a", "b"), DLink("c", "b")>>] }

(* datasets with a link whose endpoint is no node of the list *)
DanglingDatasets ==
  { [nodes |-> <<DNode("a", "startup")>>,
     links |-> <<DLink("a", "missing")>>],
    [nodes |-> <<DNode("a", "startup"), DNode("b", "investor")>>,
     links |-> <<DLink("a", "b"), DLink("missing", "b")>>] }

Datasets == ValidDatasets \cup DanglingDatasets

(* rows of the remote community table, as loadCommunityData maps them *)
CommunityNodes == <<SizedNode("p", "person", RInt(6))>>

Personas == {"founder", "investor"}

(* initial positions drawn by Math.random() * width, Math.random() * height:
   layout 1 spreads the nodes, layout 2 puts the first two on one point *)
Layouts == {1, 2}

LayoutPos(lay, i) ==
  IF lay = 1
  THEN <<(40 + 80 * (i - 1)) % Width, (60 + 90 * ((i - 1) \div 2)) % Height>>
  ELSE IF i <= 2 THEN <<Width \div 2, Height \div 2>>
       ELSE <<(30 * i) % Width, (170 + 20 * i) % Height>>

(* pointer positions relative to the svg: clientX - rect.left, clientY - rect.top *)
Points == { <<50, 60>>, <<150, 100>> }

(* wheel deltaY values *)
DeltaYs == { -5000, -500, 500, 1000, 5000 }

----------------------------------------------------------------------------
(* Program constants of the simulation (renderGraph) *)

maxTicks == 100
linkDistance == 90
linkStrengthMilli == 15        \* linkStrength = 0.015
chargeStrength == -200
centerStrengthTenMilli == 15   \* centerStrength = 0.0015
dampingPercent == 75           \* damping = 0.75
clusterStrengthPercent == 10   \* clusterStrength = 0.1
clusterRadiusPercent == 40     \* clusterRadius = min(width, height) * 0.4
thresholdScreen == 25          \* link hit-test threshold, screen pixels

----------------------------------------------------------------------------
(* Graph data adapter: the node / link copy of renderGraph *)

RECURSIVE LastIndexOf(_, _, _)
LastIndexOf(dnodes, id, k) ==
  IF k = 0 THEN 0
  ELSE IF dnodes[k].id = id THEN k ELSE LastIndexOf(dnodes, id, k - 1)

(* nodeMap[id]: the SimNode stored last under that id, 0 when undefined *)
nodeMap(dnodes, id) == LastIndexOf(dnodes, id, Len(dnodes))

SimNodes(dnodes, lay) ==
  [i \in 1..Len(dnodes) |->
     [id |-> dnodes[i].id, category |-> dnodes[i].category,
      size |-> IF "size" \in DOMAIN dnodes[i] THEN dnodes[i].size ELSE Undefined,
      x |-> RInt(LayoutPos(lay, i)[1]), y |-> RInt(LayoutPos(lay, i)[2]),
      vx |-> RInt(0), vy |-> RInt(0), fx |-> RInt(0), fy |-> RInt(0)]]

SimLinks(dlinks, dnodes) ==
  [i \in 1..Len(dlinks) |->
     [source |-> nodeMap(dnodes, dlinks[i].source),
      target |-> nodeMap(dnodes, dlinks[i].target)]]

(* SimNodes that are the descriptors themselves: what is written to a
   SimNode shows in its entry of DATA.nodes *)
sourceNodesShared(dnodes, ns) ==
  [i \in 1..Len(dnodes) |->
     [id |-> dnodes[i].id, category |-> dnodes[i].category,
      x |-> ns[i].x, y |-> ns[i].y, vx |-> ns[i].vx, vy |-> ns[i].vy,
      fx |-> ns[i].fx, fy |-> ns[i].fy]]

(* the entries of DATA.nodes after x, y, vx, vy, fx, fy were written to the
   SimNodes ns: a SimNode is Object.assign({}, n), an object of its own, so
   the writes reach no descriptor *)
sourceNodes(dnodes, ns) == dnodes

----------------------------------------------------------------------------
(* Cluster centres: one per distinct category, on a circle round the centre *)

RECURSIVE Distinct(_, _)
Distinct(s, acc) ==
  IF s = <<>> THEN acc
  ELSE Distinct(Tail(s),
                IF \E i \in 1..Len(acc) : acc[i] = Head(s) THEN acc
                ELSE Append(acc, Head(s)))

(* [...new Set(nodes.map(n => n.category))]: first-occurrence order *)
categories(ns) == Distinct([i \in 1..Len(ns) |-> ns[i].category], <<>>)

(* <<cos, sin>> of 2*pi*idx/count in thousandths, for count <= 4 *)
CosSinMilli(count, idx) ==
  CASE count = 1 -> <<1000, 0>>
    [] count = 2 -> <<<<1000, 0>>, <<-1000, 0>>>>[idx + 1]
    [] count = 3 -> <<<<1000, 0>>, <<-500, 866>>, <<-500, -866>>>>[idx + 1]
    [] OTHER -> <<<<1000, 0>>, <<0, 1000>>, <<-1000, 0>>, <<0, -1000>>>>[(idx % 4) + 1]

IndexIn(s, e) == CHOOSE i \in 1..Len(s) : s[i] = e

(* clusterCenters[cat] in fixed point *)
clusterCenters(ns, cat) ==
  LET cats == categories(ns)
      idx == IndexIn(cats, cat) - 1
      cs == CosSinMilli(Len(cats), idx)
      side == IF Width < Height THEN Width ELSE Height
      radius == (side * Unit * clusterRadiusPercent) \div 100
  IN  <<(Width * Unit) \div 2 + RoundDiv(radius * cs[1], 1000),
        (Height * Unit) \div 2 + RoundDiv(radius * cs[2], 1000)>>

----------------------------------------------------------------------------
(* One simulation tick (function tick of renderGraph), in fixed point *)

RECURSIVE SeqSum(_)
SeqSum(s) == IF s = <<>> THEN 0 ELSE Head(s) + SeqSum(Tail(s))

(* the first link with an undefined endpoint, Len + 1 when there is none:
   reading l.target.x or l.source.x of such a link throws a TypeError *)
FirstDangling(ls) ==
  IF \E i \in 1..Len(ls) : ls[i].source = 0 \/ ls[i].target = 0
  THEN CHOOSE i \in 1..Len(ls) :
         /\ ls[i].source = 0 \/ ls[i].target = 0
         /\ \A j \in 1..(i - 1) : ls[j].source # 0 /\ ls[j].target # 0
  ELSE Len(ls) + 1

HasDangling(ls) == FirstDangling(ls) <= Len(ls)

TickThrows(ls) == HasDangling(ls)

(* the distance used by the spring force of link l, in fixed point:
   dist = Math.sqrt(dx*dx + dy*dy) || 1, where || replaces a root of 0 *)
springDistance(ns, l) ==
  LET dx == ToFix(ns[l.target].x) - ToFix(ns[l.source].x)
      dy == ToFix(ns[l.target].y) - ToFix(ns[l.source].y)
      root == ISqrt(dx * dx + dy * dy)
  IN  IF root = 0 THEN Unit ELSE root

(* spring force of one link on its source, <<fx, fy>>; the target gets the
   negation *)
LinkForce(ns, l) ==
  LET dx == ToFix(ns[l.target].x) - ToFix(ns[l.source].x)
      dy == ToFix(ns[l.target].y) - ToFix(ns[l.source].y)
      dist == springDistance(ns, l)
      diff == dist - linkDistance * Unit
      force == RoundDiv(linkStrengthMilli * diff * 100, dist)  \* in 1 / 100000
  IN  <<RoundDiv(dx * force, 100000), RoundDiv(dy * force, 100000)>>

(* link forces accumulated on node k by the links 1..upto *)
LinkSum(ns, ls, k, upto, axis) ==
  SeqSum([i \in 1..upto |->
            LET f == LinkForce(ns, ls[i])[axis]
            IN  (IF ls[i].source = k THEN f ELSE 0)
                - (IF ls[i].target = k THEN f ELSE 0)])

(* a charge denominator without the added 0.01 *)
chargeDenominatorBare(ns, i, j) ==
  LET dx == ToFix(ns[j].x) - ToFix(ns[i].x)
      dy == ToFix(ns[j].y) - ToFix(ns[i].y)
  IN  dx * dx + dy * dy

(* dist2 = dx * dx + dy * dy + 0.01 of the pair (i, j), in fixed point *)
chargeDenominator(ns, i, j) ==
  LET dx == ToFix(ns[j].x) - ToFix(ns[i].x)
      dy == ToFix(ns[j].y) - ToFix(ns[i].y)
  IN  dx * dx + dy * dy + RoundDiv(Unit * Unit, 100)

(* charge force of the pair (i, j), i < j, on node j; node i gets the negation *)
ChargeForce(ns, i, j) ==
  LET dx == ToFix(ns[j].x) - ToFix(ns[i].x)
      dy == ToFix(ns[j].y) - ToFix(ns[i].y)
      dist2 == chargeDenominator(ns, i, j)
  IN  <<RoundDiv(dx * chargeStrength * Unit * Unit, dist2),
        RoundDiv(dy * chargeStrength * Unit * Unit, dist2)>>

ChargeSum(ns, k, axis) ==
  SeqSum([i \in 1..Len(ns) |->
            IF i < k THEN ChargeForce(ns, i, k)[axis]
            ELSE IF i > k THEN -ChargeForce(ns, k, i)[axis]
            ELSE 0])

(* centering and cluster force on node k *)
CentreForce(ns, k) ==
  LET c == clusterCenters(ns, ns[k].category)
      x == ToFix(ns[k].x)
      y == ToFix(ns[k].y)
  IN  <<RoundDiv(((Width * Unit) \div 2 - x) * centerStrengthTenMilli, 10000)
          + RoundDiv((c[1] - x) * clusterStrengthPercent, 100),
        RoundDiv(((Height * Unit) \div 2 - y) * centerStrengthTenMilli, 10000)
          + RoundDiv((c[2] - y) * clusterStrengthPercent, 100)>>

(* the accumulator of node k after the link, charge, centering and cluster
   loops over the positions of ns *)
Accumulated(ns, ls, k) ==
  <<LinkSum(ns, ls, k, Len(ls), 1) + ChargeSum(ns, k, 1) + CentreForce(ns, k)[1],
    LinkSum(ns, ls, k, Len(ls), 2) + ChargeSum(ns, k, 2) + CentreForce(ns, k)[2]>>

(* node k after the integration loop: n.vx = (n.vx + n.fx) * damping;
   n.x += n.vx, with the accumulator filled from the positions of ns *)
Integrated(ns, ls, k) ==
  LET f == Accumulated(ns, ls, k)
      vx == RoundDiv((ToFix(ns[k].vx) + f[1]) * dampingPercent, 100)
      vy == RoundDiv((ToFix(ns[k].vy) + f[2]) * dampingPercent, 100)
  IN  [ns[k] EXCEPT !.fx = FromFix(f[1]), !.fy = FromFix(f[2]),
                    !.vx = FromFix(vx), !.vy = FromFix(vy),
                    !.x = FromFix(ToFix(ns[k].x) + vx),
                    !.y = FromFix(ToFix(ns[k].y) + vy)]

(* a tick that moves the first node before it accumulates the forces of
   the others *)
TickNodesInPlace(ns, ls) ==
  IF ns = <<>> THEN ns
  ELSE LET first == [ns EXCEPT ![1] = Integrated(ns, ls, 1)]
       IN  [k \in 1..Len(ns) |->
              IF k = 1 THEN first[1] ELSE Integrated(first, ls, k)]

(* the node array after a complete tick: the four force loops run over all
   nodes before the integration loop moves any of them *)
TickNodes(ns, ls) ==
  [k \in 1..Len(ns) |-> Integrated(ns, ls, k)]

(* the node array left behind by a tick that throws in its link loop: the
   accumulators are reset and hold the forces of the links before the
   offending one; nothing else was written *)
TickNodesThrown(ns, ls) ==
  [k \in 1..Len(ns) |->
     [ns[k] EXCEPT
        !.fx = FromFix(LinkSum(ns, ls, k, FirstDangling(ls) - 1, 1)),
        !.fy = FromFix(LinkSum(ns, ls, k, FirstDangling(ls) - 1, 2))]]

----------------------------------------------------------------------------
(* State *)

VARIABLES
  persona,              \* persona id, Null when none
  selectorVisible,      \* persona selector shown
  appVisible,           \* dex-app shown
  communityDataLoaded,
  fetching,             \* loadCommunityData calls awaiting the community table
  DATA,                 \* window.DEX_DATA: [nodes, links]
  diagnostics,          \* console.error / console.warn reports, by kind
  watchlist,            \* sequence of node ids
  watchlistPanel,       \* ids listed (with buttons) in the watchlist panel
  watchlistsTable,      \* node_id of the user's rows of the watchlists table
  selectedNode,         \* id of the selected node, Null when none
  selectedLink,         \* selected link, NoLink when none
  detailsPanel,         \* what the details panel shows
  rendered,             \* a render pass has built svgEl, nodes, links
  nodes,                \* SimNodes of the current pass
  links,                \* SimLinks of the current pass
  simulationId,         \* animation-frame handle, 0 when null
  pending,              \* frame callbacks requested and not yet run or cancelled
  tickCount,            \* of the current pass
  offsetX, offsetY, scale,
  draggingNode,         \* index into nodes, 0 when null
  dragOffset,           \* <<x, y>>
  isPanning,
  panStart,             \* <<x, y>>
  gesture,              \* the pointer: press in progress, its target, moved,
                        \* where it went down, the pressed node's position
                        \* and the view transform at that moment
  nInput,               \* wheel / pointer-move events handled in this pass
  neighbourMap,         \* set of <<id, neighbour id>>
  radii,                \* r attribute of each node circle and hit circle
  emphasis,             \* opacity (percent) and stroke width of the primitives
  drawn,                \* position attributes of the primitives
  distCall,             \* a call of distToSegment: its arguments and result
  authListeners,        \* submit listeners bound to the sign-in form
  otpRequests,          \* signInWithOtp requests issued
  notes,                \* the notes in memory: pairs <<node_id, note>>
  notesTable,           \* the rows of the notes table of the signed-in user
  loads,                \* the two loads started by handleSignedIn
  savesIssued,          \* save requests issued by the last watchlist operation
  suggestCall           \* a call of updateSuggestionsPanel: what it reads, its list

(* state beside the graph of the current pass *)
signVars == <<authListeners, otpRequests, notes, notesTable, loads>>

sideVars == <<distCall, signVars, savesIssued, suggestCall>>

vars ==
  <<persona, selectorVisible, appVisible, communityDataLoaded, fetching, DATA,
    diagnostics, watchlist, watchlistPanel, watchlistsTable, selectedNode,
    selectedLink,
    detailsPanel, rendered, nodes, links, simulationId, pending, tickCount,
    offsetX, offsetY, scale, draggingNode, dragOffset, isPanning, panStart,
    gesture, nInput, neighbourMap, radii, emphasis, drawn, sideVars>>

lifeVars == <<persona, selectorVisible, appVisible>>
dataVars == <<communityDataLoaded, fetching, DATA, diagnostics>>
watchVars == <<watchlist, watchlistPanel, watchlistsTable>>
selVars == <<selectedNode, selectedLink, detailsPanel, emphasis>>
simVars == <<simulationId, pending, tickCount>>
viewVars == <<offsetX, offsetY, scale>>
pointerVars == <<draggingNode, dragOffset, isPanning, panStart>>

NoLink == [idx |-> 0, stale |-> FALSE, src |-> Null, tgt |-> Null]
DefaultPanel == [kind |-> "default", a |-> Null, b |-> Null]
IdleGesture ==
  [down |-> FALSE, target |-> 0, moved |-> FALSE, at |-> <<0, 0>>,
   origin |-> <<<<0, 1>>, <<0, 1>>>>, view |-> <<<<0, 1>>, <<0, 1>>, <<1, 1>>>>]

(* a press on `target` at the point `at` *)
Press(target, at, origin, view) ==
  [down |-> TRUE, target |-> target, moved |-> FALSE, at |-> at,
   origin |-> origin, view |-> view]

(* no primitives: before the first render pass *)
NoRadii == [hit |-> <<>>, vis |-> <<>>]
NoEmphasis ==
  [nodes |-> <<>>, links |-> <<>>, hitLines |-> <<>>, hitPointerEvents |-> <<>>]
NoDrawn ==
  [nodeEls |-> <<>>, hitNodeEls |-> <<>>, textEls |-> <<>>,
   linkEls |-> <<>>, hitLineEls |-> <<>>]

(* event targets: a node circle (index >= 1), the svg / g background (0),
   a text label (-1) *)
(* no call of distToSegment recorded *)
NoCall == [p |-> <<0, 0>>, a |-> <<0, 0>>, b |-> <<0, 0>>, returned |-> FALSE, d2 |-> <<0, 1>>]

Background == 0
Label == -1

(* no call of updateSuggestionsPanel is looked at *)
NoSuggestCall ==
  [nodes |-> <<>>, links |-> <<>>, watchlist |-> <<>>, persona |-> Null,
   returned |-> FALSE, top |-> <<>>]

(* no load of the watchlist or of the notes has been started *)
NoLoads == [watchlist |-> "idle", notes |-> "idle"]

(* the page before any call of distToSegment is looked at *)
InitGraph(personas, watchlists, datasets) ==
  /\ persona \in personas
  /\ selectorVisible = (persona = Null)
  /\ appVisible = (persona # Null)
  /\ communityDataLoaded = FALSE
  /\ fetching = 0
  /\ DATA \in datasets
  /\ diagnostics = [community |-> 0, integrity |-> 0]
  /\ watchlist \in watchlists
  /\ watchlistPanel = watchlist
  /\ watchlistsTable = { watchlist[i] : i \in 1..Len(watchlist) }
  /\ selectedNode = Null
  /\ selectedLink = NoLink
  /\ detailsPanel = DefaultPanel
  /\ rendered = FALSE
  /\ nodes = <<>>
  /\ links = <<>>
  /\ simulationId = 0
  /\ pending = {}
  /\ tickCount = 0
  /\ offsetX = RInt(0)
  /\ offsetY = RInt(0)
  /\ scale = RInt(1)
  /\ draggingNode = 0
  /\ dragOffset = <<RInt(0), RInt(0)>>
  /\ isPanning = FALSE
  /\ panStart = <<0, 0>>
  /\ gesture = IdleGesture
  /\ nInput = 0
  /\ neighbourMap = {}
  /\ radii = NoRadii
  /\ emphasis = NoEmphasis
  /\ drawn = NoDrawn
  /\ authListeners = 0
  /\ otpRequests = 0
  /\ notes = {}
  /\ loads = NoLoads
  /\ savesIssued = 0

InitWith(personas, watchlists, datasets) ==
  /\ InitGraph(personas, watchlists, datasets)
  /\ distCall = NoCall
  /\ notesTable = {}
  /\ suggestCall = NoSuggestCall

(* the page after init(): a signed-in user, the persona and the watchlist as
   stored by an earlier visit, the graph not rendered yet *)
Init == InitWith({Null} \cup Personas, {<<>>, <<"a">>}, ValidDatasets)

(* a first visit: nothing stored *)
InitFresh == InitWith({Null}, {<<>>}, ValidDatasets)

(* a first visit, the dataset of two linked nodes *)
InitPair == InitWith({Null}, {<<>>}, {PairDataset})

----------------------------------------------------------------------------
(* Animation frames *)

FrameIdsOf(ps) == { f.id : f \in ps }

(* requestAnimationFrame returns a handle no pending callback has *)
requestAnimationFrame(ps) ==
  CHOOSE i \in 1..(Cardinality(ps) + 1) :
    /\ i \notin FrameIdsOf(ps)
    /\ \A j \in 1..(i - 1) : j \in FrameIdsOf(ps)

cancelAnimationFrame(ps, id) == { f \in ps : f.id # id }

(* a pending tick callback: its handle, whether its closure is the current
   render pass, and (for a superseded pass) that closure's tickCount *)
Frame(id, cur, tc) == [id |-> id, cur |-> cur, tc |-> tc]

----------------------------------------------------------------------------
(* Selection and details panel *)

(* highlightSelection throws a TypeError when it reads .id of the undefined
   endpoint of a link; it returns early before the first render pass and
   never reads the endpoints while no node is selected *)
HighlightThrows(selNode, selLink) ==
  /\ rendered
  /\ selLink = NoLink
  /\ selNode # Null
  /\ \E i \in 1..Len(links) :
       \/ links[i].source = 0
       \/ /\ nodes[links[i].source].id # selNode
          /\ links[i].target = 0

(* updateDetailsPanel: the panel rendered for a selection *)
updateDetailsPanel(selNode, selLink) ==
  IF selLink # NoLink
  THEN [kind |-> "link", a |-> selLink.src, b |-> selLink.tgt]
  ELSE IF selNode # Null
       THEN [kind |-> "node", a |-> selNode, b |-> Null]
       ELSE DefaultPanel

Style(opacity, strokeWidth) == [opacity |-> opacity, strokeWidth |-> strokeWidth]

(* the first link at which the node branch of highlightSelection throws,
   Len + 1 when it does not *)
FirstHighlightThrow(selNode) ==
  LET bad(i) == \/ links[i].source = 0
                \/ /\ nodes[links[i].source].id # selNode
                   /\ links[i].target = 0
  IN  IF selNode # Null /\ \E i \in 1..Len(links) : bad(i)
      THEN CHOOSE i \in 1..Len(links) : bad(i) /\ \A j \in 1..(i - 1) : ~bad(j)
      ELSE Len(links) + 1

(* a selected link made opaque but left thin *)
linkStyleThin(emphasised) == IF emphasised THEN Style(100, 1) ELSE Style(5, 1)

(* opacity emphasised ? 1 : 0.05, stroke-width emphasised ? '2' : '1' *)
linkStyle(emphasised) == IF emphasised THEN Style(100, 2) ELSE Style(5, 1)

(* highlightSelection: the opacity and stroke-width attributes it leaves;
   em are the attributes before the call *)
highlightSelection(selNode, selLink, em) ==
  IF ~rendered THEN em
  ELSE IF selLink # NoLink
  THEN [nodes |-> [i \in 1..Len(nodes) |->
                     IF nodes[i].id = selLink.src \/ nodes[i].id = selLink.tgt
                     THEN Style(100, 2) ELSE Style(20, 1)],
        links |-> [i \in 1..Len(links) |->
                     linkStyle(~selLink.stale /\ selLink.idx = i)],
        hitLines |-> [i \in 1..Len(links) |-> 18],
        hitPointerEvents |-> em.hitPointerEvents]
  ELSE [nodes |-> [i \in 1..Len(nodes) |->
                     Style(IF \/ selNode = Null
                              \/ nodes[i].id = selNode
                              \/ <<selNode, nodes[i].id>> \in neighbourMap
                           THEN 100 ELSE 20,
                           IF selNode # Null /\ nodes[i].id = selNode THEN 2 ELSE 1)],
        links |-> [i \in 1..Len(links) |->
                     IF i >= FirstHighlightThrow(selNode) THEN em.links[i]
                     ELSE Style(IF \/ selNode = Null
                                   \/ nodes[links[i].source].id = selNode
                                   \/ nodes[links[i].target].id = selNode
                                THEN 100 ELSE 5, 1)],
        hitLines |-> [i \in 1..Len(links) |->
                        IF i >= FirstHighlightThrow(selNode) THEN em.hitLines[i]
                        ELSE 18],
        hitPointerEvents |-> em.hitPointerEvents]

(* a refresh that leaves the primitives as they are when nothing is selected *)
RefreshIfSelected(selNode, selLink) ==
  /\ emphasis' = IF selNode = Null /\ selLink = NoLink THEN emphasis
                 ELSE highlightSelection(selNode, selLink, emphasis)
  /\ detailsPanel' = IF HighlightThrows(selNode, selLink) THEN detailsPanel
                     ELSE updateDetailsPanel(selNode, selLink)

(* highlightSelection(); updateDetailsPanel() after the selection was set *)
Refresh(selNode, selLink) ==
  /\ emphasis' = highlightSelection(selNode, selLink, emphasis)
  /\ detailsPanel' = IF HighlightThrows(selNode, selLink) THEN detailsPanel
                     ELSE updateDetailsPanel(selNode, selLink)

onNodeSelect(node) ==
  /\ selectedNode' = node
  /\ selectedLink' = NoLink
  /\ Refresh(node, NoLink)

(* onLinkSelect without its second assignment *)
onLinkSelectKeepingNode(link) ==
  /\ selectedLink' = link
  /\ selectedNode' = selectedNode
  /\ Refresh(selectedNode, link)

onLinkSelect(link) ==
  /\ selectedLink' = link
  /\ selectedNode' = Null
  /\ Refresh(Null, link)

DataNodeIds == { DATA.nodes[i].id : i \in 1..Len(DATA.nodes) }

(* close button of the details panel *)
ClosePanel ==
  /\ appVisible
  /\ detailsPanel.kind # "default"
  /\ IF detailsPanel.kind = "link"
     THEN /\ selectedLink' = NoLink
          /\ selectedNode' = selectedNode
          /\ Refresh(selectedNode, NoLink)
     ELSE onNodeSelect(Null)
  /\ UNCHANGED <<lifeVars, dataVars, watchVars, rendered, neighbourMap, radii, sideVars, nodes,
                 links, drawn, simVars, viewVars, pointerVars, gesture, nInput>>

(* "Open <node>" buttons of the connection panel; node names of the
   watchlist panel: DATA.nodes.find(id), then onNodeSelect if found *)
OpenNode(id) ==
  /\ appVisible
  /\ \/ detailsPanel.kind = "link" /\ id \in {detailsPanel.a, detailsPanel.b}
     \/ \E i \in 1..Len(watchlistPanel) : watchlistPanel[i] = id
  /\ IF id \in DataNodeIds THEN onNodeSelect(id) ELSE UNCHANGED selVars
  /\ UNCHANGED <<lifeVars, dataVars, watchVars, rendered, neighbourMap, radii, sideVars, nodes,
                 links, drawn, simVars, viewVars, pointerVars, gesture, nInput>>

----------------------------------------------------------------------------
(* Watchlist *)

SeqFilterOut(s, id) ==
  LET keep == { i \in 1..Len(s) : s[i] # id }
      RECURSIVE Build(_)
      Build(k) == IF k > Len(s) THEN <<>>
                  ELSE IF k \in keep THEN <<s[k]>> \o Build(k + 1)
                       ELSE Build(k + 1)
  IN  Build(1)

(* saveWatchlistToStorage with a signed-in user (the app is shown to no
   other): the items of the watchlist w are upserted into the watchlists
   table on the key (user_id, node_id); no row is deleted *)
saveWatchlistToStorage(w, table) == table \cup { w[i] : i \in 1..Len(w) }

(* localStorage 'dex-watchlist', the fallback of a failed fetch: nothing
   writes it while a user is signed in *)
localWatchlist == <<>>

(* watchlist.some((n) => n.id === node.id), without the test *)
onWatchlistNever(w, id) == FALSE

(* watchlist.some((n) => n.id === node.id) *)
onWatchlist(w, id) == \E i \in 1..Len(w) : w[i] = id

(* "Add to watchlist" button of the node panel; the watchlist holds up to
   MaxWatch different ids *)
addToWatchlist ==
  /\ appVisible
  /\ detailsPanel.kind = "node"
  /\ Cardinality({ watchlist[i] : i \in 1..Len(watchlist) } \cup {detailsPanel.a})
       <= MaxWatch
  /\ IF onWatchlist(watchlist, detailsPanel.a)
     THEN /\ UNCHANGED watchVars
          /\ savesIssued' = 0
     ELSE /\ watchlist' = Append(watchlist, detailsPanel.a)
          /\ watchlistsTable' = saveWatchlistToStorage(watchlist', watchlistsTable)
          /\ watchlistPanel' = watchlist'
          /\ savesIssued' = 1
  /\ UNCHANGED <<lifeVars, dataVars, selVars, rendered, neighbourMap, radii, distCall,
                 signVars, suggestCall, nodes, links, drawn, simVars, viewVars,
                 pointerVars, gesture, nInput>>

(* remove button of the watchlist panel *)
removeFromWatchlist(id) ==
  /\ appVisible
  /\ \E i \in 1..Len(watchlistPanel) : watchlistPanel[i] = id
  /\ watchlist' = SeqFilterOut(watchlist, id)
  /\ watchlistsTable' = saveWatchlistToStorage(watchlist', watchlistsTable)
  /\ watchlistPanel' = watchlist'
  /\ savesIssued' = 1
  /\ IF selectedNode # Null /\ selectedNode = id
     THEN onNodeSelect(Null)
     ELSE UNCHANGED selVars
  /\ UNCHANGED <<lifeVars, dataVars, rendered, neighbourMap, radii, distCall, signVars,
                 suggestCall, nodes, links, drawn, simVars, viewVars, pointerVars,
                 gesture, nInput>>

(* handleSignedIn, run by every auth state change that carries a session:
   loadWatchlistFromStorage replaces the watchlist by the rows of the table,
   in the order the query returns them, or by the localStorage copy when
   the query fails; the app is shown when a persona is set *)
handleSignedIn(outcome) ==
  /\ outcome \in {"rows", "error"}
  /\ IF outcome = "rows"
     THEN \E w \in [1..Cardinality(watchlistsTable) -> watchlistsTable] :
            /\ \A i, j \in DOMAIN w : w[i] = w[j] => i = j
            /\ watchlist' = w
     ELSE watchlist' = localWatchlist
  /\ watchlistPanel' = watchlist'
  /\ appVisible' = IF persona # Null THEN TRUE ELSE appVisible
  /\ UNCHANGED <<persona, selectorVisible, watchlistsTable, dataVars, selVars,
                 rendered, neighbourMap, radii, sideVars, nodes, links, drawn, simVars,
                 viewVars, pointerVars, gesture, nInput>>

(* handleSignedOut, called with the result of getSession and by every
   auth-state-change callback without a session: the app is hidden and
   bindAuthForm adds one more submit listener to the sign-in form *)
handleSignedOut ==
  /\ authListeners < MaxAuth
  /\ authListeners' = authListeners + 1
  /\ appVisible' = FALSE
  /\ UNCHANGED <<persona, selectorVisible, dataVars, watchVars, selVars, rendered,
                 neighbourMap, radii, nodes, links, drawn, simVars, viewVars,
                 pointerVars, gesture, nInput, distCall, otpRequests, notes, notesTable,
                 loads, savesIssued, suggestCall>>

(* one submit of the sign-in form: every bound listener runs, and each
   issues a signInWithOtp request unless the trimmed email is empty *)
submitAuthForm(email) ==
  /\ otpRequests < MaxAuth * MaxAuth
  /\ otpRequests' = IF email = "" THEN otpRequests ELSE otpRequests + authListeners
  /\ UNCHANGED <<lifeVars, dataVars, watchVars, selVars, rendered, neighbourMap,
                 radii, nodes, links, drawn, simVars, viewVars, pointerVars,
                 gesture, nInput, distCall, authListeners, notes, notesTable, loads,
                 savesIssued, suggestCall>>

(* the copy kept in localStorage: it is written only without a signed-in
   user, so a signed-in visit finds it empty *)
localNotes == {}

(* handleSignedIn as two loads that answer separately: it starts
   loadWatchlistFromStorage and loadNotesFromStorage, neither awaited, and
   shows the app when a persona is set; one query of each kind is in flight
   at a time *)
handleSignedInStarts ==
  /\ loads.watchlist # "pending"
  /\ loads.notes # "pending"
  /\ loads' = [watchlist |-> "pending", notes |-> "pending"]
  /\ appVisible' = IF persona # Null THEN TRUE ELSE appVisible
  /\ UNCHANGED <<persona, selectorVisible, dataVars, watchVars, selVars, rendered,
                 neighbourMap, radii, nodes, links, drawn, simVars, viewVars,
                 pointerVars, gesture, nInput, distCall, authListeners, otpRequests,
                 notes, notesTable, savesIssued, suggestCall>>

(* the watchlists query answers: its rows replace the watchlist, in the
   order the query returns them; an error runs loadFromLocalStorage, which
   replaces the watchlist and the notes *)
loadWatchlistFromStorage(outcome) ==
  /\ loads.watchlist = "pending"
  /\ outcome \in {"rows", "error"}
  /\ loads' = [loads EXCEPT !.watchlist = outcome]
  /\ IF outcome = "rows"
     THEN /\ \E w \in [1..Cardinality(watchlistsTable) -> watchlistsTable] :
               /\ \A i, j \in DOMAIN w : w[i] = w[j] => i = j
               /\ watchlist' = w
          /\ notes' = notes
     ELSE /\ watchlist' = localWatchlist
          /\ notes' = localNotes
  /\ watchlistPanel' = watchlist'
  /\ UNCHANGED <<lifeVars, dataVars, watchlistsTable, selVars, rendered, neighbourMap,
                 radii, nodes, links, drawn, simVars, viewVars, pointerVars, gesture,
                 nInput, distCall, authListeners, otpRequests, notesTable, savesIssued,
                 suggestCall>>

(* the notes query answers: its rows replace the notes; an error runs
   loadFromLocalStorage, which replaces the watchlist and the notes and
   refreshes the watchlist panel *)
loadNotesFromStorage(outcome) ==
  /\ loads.notes = "pending"
  /\ outcome \in {"rows", "error"}
  /\ loads' = [loads EXCEPT !.notes = outcome]
  /\ IF outcome = "rows"
     THEN /\ notes' = notesTable
          /\ UNCHANGED <<watchlist, watchlistPanel>>
     ELSE /\ watchlist' = localWatchlist
          /\ notes' = localNotes
          /\ watchlistPanel' = watchlist'
  /\ UNCHANGED <<lifeVars, dataVars, watchlistsTable, selVars, rendered, neighbourMap,
                 radii, nodes, links, drawn, simVars, viewVars, pointerVars, gesture,
                 nInput, distCall, authListeners, otpRequests, notesTable, savesIssued,
                 suggestCall>>

----------------------------------------------------------------------------
(* Render pass *)

(* renderGraph: cancel the running simulation, rebuild nodes and links from
   DATA, reset the view transform and the pointer state of the new closure,
   schedule the first tick.  Callbacks of the previous pass that are still
   pending keep the closure (and tickCount) of that pass. *)
(* a render pass that schedules without cancelling *)
cancelSimulationSkipped(ps, id) == ps

(* if (simulationId) { cancelAnimationFrame(simulationId) } at the head of
   renderGraph: the callbacks left pending *)
cancelSimulation(ps, id) ==
  IF id # 0 THEN cancelAnimationFrame(ps, id) ELSE ps

(* the attributes of the primitives as renderGraph creates them: no
   opacity attribute (shown at 100), lines of stroke width 1, hit lines of
   stroke width 18, no position attribute (shown at 0) *)
FreshEmphasis(nNodes, nLinks) ==
  [nodes |-> [i \in 1..nNodes |-> Style(100, 1)],
   links |-> [i \in 1..nLinks |-> Style(100, 1)],
   hitLines |-> [i \in 1..nLinks |-> 18],
   hitPointerEvents |-> [i \in 1..nLinks |-> "none"]]

FreshDrawn(nNodes, nLinks) ==
  [nodeEls |-> [i \in 1..nNodes |-> <<RInt(0), RInt(0)>>],
   hitNodeEls |-> [i \in 1..nNodes |-> <<RInt(0), RInt(0)>>],
   textEls |-> [i \in 1..nNodes |-> <<RInt(0), RInt(0)>>],
   linkEls |-> [i \in 1..nLinks |-> <<RInt(0), RInt(0), RInt(0), RInt(0)>>],
   hitLineEls |-> [i \in 1..nLinks |-> <<RInt(0), RInt(0), RInt(0), RInt(0)>>]]

(* buildNeighbourMap: both directions of every link descriptor *)
(* a neighbour index filled from source to target only *)
(* const radius = node.size ? Math.max(4, 3 + node.size * 0.25) : 5 *)
radius(size) ==
  IF size # Undefined /\ size # RInt(0)
  THEN RMax(RInt(4), RAdd(RInt(3), RMul(size, Rat(1, 4))))
  ELSE RInt(5)

(* the r attributes set when the circles are created: radius * 3 for the
   hit circle, radius for the visible one *)
FreshRadii(ns) ==
  [hit |-> [i \in 1..Len(ns) |-> RMul(radius(ns[i].size), RInt(3))],
   vis |-> [i \in 1..Len(ns) |-> radius(ns[i].size)]]

buildNeighbourMapOneWay(dlinks) ==
  { <<dlinks[i].source, dlinks[i].target>> : i \in 1..Len(dlinks) }

buildNeighbourMap(dlinks) ==
  UNION { { <<dlinks[i].source, dlinks[i].target>>,
            <<dlinks[i].target, dlinks[i].source>> } : i \in 1..Len(dlinks) }

(* a render pass that keeps the pan and zoom of the pass before *)
viewKept(previous) == previous

(* offsetX = offsetY = 0; scale = 1 *)
viewAtRender(previous) == <<RInt(0), RInt(0), RInt(1)>>

renderGraph(lay, data) ==
  LET kept == cancelSimulation(pending, simulationId)
      old == { Frame(f.id, FALSE, IF f.cur THEN tickCount ELSE f.tc) : f \in kept }
      id == requestAnimationFrame(old)
  IN  /\ rendered' = TRUE
      /\ neighbourMap' = buildNeighbourMap(data.links)
      /\ radii' = FreshRadii(SimNodes(data.nodes, lay))
      /\ emphasis' = FreshEmphasis(Len(data.nodes), Len(data.links))
      /\ drawn' = FreshDrawn(Len(data.nodes), Len(data.links))
      /\ nodes' = SimNodes(data.nodes, lay)
      /\ links' = SimLinks(data.links, data.nodes)
      /\ DATA' = [data EXCEPT !.nodes = sourceNodes(data.nodes, nodes')]
      /\ selectedLink' = IF selectedLink = NoLink THEN NoLink
                         ELSE [selectedLink EXCEPT !.stale = TRUE]
      /\ draggingNode' = 0
      /\ dragOffset' = <<RInt(0), RInt(0)>>
      /\ isPanning' = FALSE
      /\ panStart' = <<0, 0>>
      /\ offsetX' = viewAtRender(<<offsetX, offsetY, scale>>)[1]
      /\ offsetY' = viewAtRender(<<offsetX, offsetY, scale>>)[2]
      /\ scale' = viewAtRender(<<offsetX, offsetY, scale>>)[3]
      /\ tickCount' = 0
      /\ pending' = old \cup {Frame(id, TRUE, 0)}
      /\ simulationId' = id
      /\ gesture' = IdleGesture
      /\ nInput' = 0

(* the part of setPersona after `await loadCommunityData()` *)
setPersonaResume(lay, data) ==
  /\ watchlistPanel' = watchlist
  /\ renderGraph(lay, data)
  /\ UNCHANGED <<watchlist, watchlistsTable, selectedNode, detailsPanel, sideVars>>

(* persona option button; lay is the draw of Math.random() of the render *)
setPersona(id, lay) ==
  /\ selectorVisible
  /\ persona' = id
  /\ selectorVisible' = FALSE
  /\ appVisible' = TRUE
  /\ IF communityDataLoaded
     THEN /\ setPersonaResume(lay, DATA)
          /\ UNCHANGED <<communityDataLoaded, fetching, diagnostics>>
     ELSE /\ fetching < MaxFetch
          /\ fetching' = fetching + 1
          /\ UNCHANGED <<communityDataLoaded, DATA, diagnostics, watchVars,
                         selVars, rendered, neighbourMap, radii, sideVars, nodes, links, drawn,
                         simVars, viewVars, pointerVars, gesture, nInput>>

(* the community table answers a loadCommunityData call: an error or an
   exception is reported, rows are appended to DATA.nodes, an empty table is
   warned about; setPersona then resumes *)
loadCommunityData(outcome, lay) ==
  /\ fetching > 0
  /\ fetching' = fetching - 1
  /\ CASE outcome = "rows" ->
            /\ communityDataLoaded' = TRUE
            /\ UNCHANGED diagnostics
       [] OTHER ->
            /\ diagnostics.community < MaxDiag
            /\ diagnostics' = [diagnostics EXCEPT !.community = @ + 1]
            /\ UNCHANGED communityDataLoaded
  /\ setPersonaResume(lay, IF outcome = "rows"
                           THEN [DATA EXCEPT !.nodes = DATA.nodes \o CommunityNodes]
                           ELSE DATA)
  /\ UNCHANGED lifeVars

(* "change persona" button *)
resetPersona ==
  /\ persona' = Null
  /\ selectedNode' = Null
  /\ selectedLink' = NoLink
  /\ selectorVisible' = TRUE
  /\ appVisible' = FALSE
  /\ detailsPanel' = DefaultPanel
  /\ watchlistPanel' = <<>>
  /\ UNCHANGED emphasis
  /\ UNCHANGED <<dataVars, watchlist, watchlistsTable, rendered, neighbourMap, radii, sideVars, nodes, links,
                 drawn, simVars, viewVars, pointerVars, gesture, nInput>>

----------------------------------------------------------------------------
(* Frame callback: one run of tick *)

(* the host runs a pending callback f.  A tick that throws in its link loop
   neither counts nor reschedules; otherwise the tick counts and requests the
   next frame while its closure's tickCount is below maxTicks *)
(* an off-by-one continuation test *)
keepTickingInclusive(tc) == tc <= maxTicks

(* if (tickCount < maxTicks) after tickCount++ *)
keepTicking(tc) == tc < maxTicks

(* the end of tick: tickCount++, then the next frame is requested or
   simulationId is set to null.  A tick that threw reaches neither. *)
tickSchedule(f) ==
  LET tc == IF f.cur THEN tickCount ELSE f.tc
      rest == pending \ {f}
      id == requestAnimationFrame(rest)
  IN  /\ f \in pending
      /\ IF TickThrows(links)
         THEN /\ pending' = rest
              /\ UNCHANGED <<simulationId, tickCount>>
         ELSE /\ tickCount' = IF f.cur THEN tc + 1 ELSE tickCount
              /\ IF keepTicking(tc + 1)
                 THEN /\ pending' = rest \cup {Frame(id, f.cur, IF f.cur THEN 0 ELSE tc + 1)}
                      /\ simulationId' = id
                 ELSE /\ pending' = rest
                      /\ simulationId' = 0

(* the position attributes written from the simulation state ns, ls: the
   last two loops of tick, and updatePositionsInstant when no link is
   dangling *)
syncPositions(ns, ls) ==
  LET ends(i) == <<ns[ls[i].source].x, ns[ls[i].source].y,
                   ns[ls[i].target].x, ns[ls[i].target].y>>
  IN  [nodeEls |-> [i \in 1..Len(ns) |-> <<ns[i].x, ns[i].y>>],
       hitNodeEls |-> [i \in 1..Len(ns) |-> <<ns[i].x, ns[i].y>>],
       textEls |-> [i \in 1..Len(ns) |-> <<ns[i].x, RSub(ns[i].y, RInt(14))>>],
       linkEls |-> [i \in 1..Len(ls) |-> ends(i)],
       hitLineEls |-> [i \in 1..Len(ls) |-> ends(i)]]

(* a drag update that leaves the repaint to the next tick *)
updatePositionsDeferred(ns, ls, d) == d

(* updatePositionsInstant: its link loop throws at the first link with an
   undefined endpoint, after the attributes of the links before it and, when
   the source is defined, x1 and y1 of that link's hit line; d are the
   attributes before the call *)
updatePositionsInstant(ns, ls, d) ==
  LET bad == FirstDangling(ls)
      ends(i) == <<ns[ls[i].source].x, ns[ls[i].source].y,
                   ns[ls[i].target].x, ns[ls[i].target].y>>
  IN  IF ~HasDangling(ls) THEN syncPositions(ns, ls)
      ELSE [d EXCEPT
              !.linkEls = [i \in 1..Len(ls) |->
                             IF i < bad THEN ends(i) ELSE d.linkEls[i]],
              !.hitLineEls = [i \in 1..Len(ls) |->
                                IF i < bad THEN ends(i)
                                ELSE IF i = bad /\ ls[i].source # 0
                                THEN <<ns[ls[i].source].x, ns[ls[i].source].y,
                                       d.hitLineEls[i][3], d.hitLineEls[i][4]>>
                                ELSE d.hitLineEls[i]]]

tick(f) ==
  /\ nodes' = IF TickThrows(links) THEN TickNodesThrown(nodes, links)
              ELSE TickNodes(nodes, links)
  /\ drawn' = IF TickThrows(links) THEN drawn ELSE syncPositions(nodes', links)
  /\ DATA' = [DATA EXCEPT !.nodes = sourceNodes(DATA.nodes, nodes')]
  /\ tickSchedule(f)
  /\ UNCHANGED <<lifeVars, communityDataLoaded, fetching, diagnostics,
                 watchVars, selVars, rendered, neighbourMap, radii, sideVars, links, viewVars,
                 pointerVars, gesture, nInput>>

----------------------------------------------------------------------------
(* Pointer handlers of the svg of the current pass *)

Interactive == rendered /\ appVisible

(* screen to simulation space: (client - rect.left - offset) / scale *)
ToSim(pt) ==
  <<RDiv(RSub(RInt(pt[1]), offsetX), scale),
    RDiv(RSub(RInt(pt[2]), offsetY), scale)>>

(* a press that forgets the handle but leaves the callback pending *)
stopOnPressHandleOnly(ps, id) == ps

(* the pending callbacks after the press handler's
   if (simulationId) { cancelAnimationFrame(simulationId); ... } *)
stopOnPress(ps, id) ==
  IF id # 0 THEN cancelAnimationFrame(ps, id) ELSE ps

(* a dragged node put under the pointer, the captured offset ignored *)
dragPositionAtPointer(p, off) == p

(* draggingNode.x = px + dragOffset.x; draggingNode.y = py + dragOffset.y *)
dragPosition(p, off) == <<RAdd(p[1], off[1]), RAdd(p[2], off[2])>>

(* mousedown on the hit circle or the visible circle of node i *)
nodeMouseDown(i, pt) ==
  /\ Interactive
  /\ i \in 1..Len(nodes)
  /\ draggingNode' = i
  /\ dragOffset' = <<RSub(nodes[i].x, ToSim(pt)[1]), RSub(nodes[i].y, ToSim(pt)[2])>>
  /\ pending' = stopOnPress(pending, simulationId)
  /\ simulationId' = 0
  /\ nodes' = [nodes EXCEPT ![i].vx = RInt(0), ![i].vy = RInt(0)]
  /\ gesture' = Press(i, pt, <<nodes[i].x, nodes[i].y>>, <<offsetX, offsetY, scale>>)
  /\ UNCHANGED <<lifeVars, dataVars, watchVars, selVars, rendered,
                 neighbourMap, radii, sideVars, links, drawn, tickCount, viewVars, isPanning,
                 panStart, nInput>>

(* mousedown reaching the svg: on the svg / g background or on a label *)
svgMouseDown(target, pt) ==
  /\ Interactive
  /\ target \in {Background, Label}
  /\ IF target = Background
     THEN /\ isPanning' = TRUE
          /\ panStart' = pt
     ELSE UNCHANGED <<isPanning, panStart>>
  /\ gesture' = Press(target, pt, IdleGesture.origin, <<offsetX, offsetY, scale>>)
  /\ UNCHANGED <<lifeVars, dataVars, watchVars, selVars, rendered,
                 neighbourMap, radii, sideVars, nodes, links, drawn, simVars, viewVars,
                 draggingNode, dragOffset, nInput>>

(* a drag update that falls through to the pan lines of the handler *)
offsetAfterDragPanned(offset, delta) ==
  IF isPanning THEN RAdd(offset, RInt(delta)) ELSE offset

(* the offset after a drag update: the handler returns after
   updatePositionsInstant(), before the lines that pan *)
offsetAfterDrag(offset, delta) == offset

svgMouseMove(pt) ==
  /\ Interactive
  /\ IF draggingNode # 0
     THEN /\ nInput < MaxInput
          /\ nInput' = nInput + 1
          /\ nodes' = [nodes EXCEPT
                         ![draggingNode].x = dragPosition(ToSim(pt), dragOffset)[1],
                         ![draggingNode].y = dragPosition(ToSim(pt), dragOffset)[2]]
          /\ drawn' = updatePositionsInstant(nodes', links, drawn)
          /\ DATA' = [DATA EXCEPT !.nodes = sourceNodes(DATA.nodes, nodes')]
          /\ offsetX' = offsetAfterDrag(offsetX, pt[1] - panStart[1])
          /\ offsetY' = offsetAfterDrag(offsetY, pt[2] - panStart[2])
          /\ UNCHANGED <<scale, panStart>>
     ELSE IF isPanning
          THEN /\ nInput < MaxInput
               /\ nInput' = nInput + 1
               /\ offsetX' = RAdd(offsetX, RInt(pt[1] - panStart[1]))
               /\ offsetY' = RAdd(offsetY, RInt(pt[2] - panStart[2]))
               /\ panStart' = pt
               /\ UNCHANGED <<nodes, drawn, scale, DATA>>
          ELSE UNCHANGED <<nodes, drawn, viewVars, panStart, nInput, DATA>>
  /\ gesture' = IF gesture.down THEN [gesture EXCEPT !.moved = TRUE] ELSE gesture
  /\ UNCHANGED <<lifeVars, communityDataLoaded, fetching, diagnostics,
                 watchVars, selVars, rendered,
                 neighbourMap, radii, sideVars, links, simVars, draggingNode, dragOffset,
                 isPanning>>

svgMouseLeave ==
  /\ Interactive
  /\ draggingNode' = 0
  /\ isPanning' = FALSE
  /\ gesture' = IdleGesture
  /\ UNCHANGED <<lifeVars, dataVars, watchVars, selVars, rendered,
                 neighbourMap, radii, sideVars, nodes, links, drawn, simVars, viewVars,
                 dragOffset, panStart, nInput>>

(* a clamp with a wrong lower limit *)
clampScaleQuarter(s) == RMax(Rat(1, 4), RMin(RInt(4), s))

(* Math.max(0.5, Math.min(4, s)) *)
clampScale(s) == RMax(Rat(1, 2), RMin(RInt(4), s))

(* the offsets corrected by the requested factor instead of the applied one *)
zoomRatioRequested(newScale, factor) == factor

(* newScale / scale, the ratio both offsets are corrected by *)
zoomRatio(newScale, factor) == RDiv(newScale, scale)

(* wheel: zoom toward the cursor *)
svgWheel(deltaY, pt) ==
  LET factor == Rat(1000 - deltaY, 1000)
      newScale == clampScale(RMul(scale, factor))
      ratio == zoomRatio(newScale, factor)
  IN  /\ Interactive
      /\ nInput < MaxInput
      /\ nInput' = nInput + 1
      /\ offsetX' = RSub(RInt(pt[1]), RMul(RSub(RInt(pt[1]), offsetX), ratio))
      /\ offsetY' = RSub(RInt(pt[2]), RMul(RSub(RInt(pt[2]), offsetY), ratio))
      /\ scale' = newScale
      /\ UNCHANGED <<lifeVars, dataVars, watchVars, selVars, rendered,
                     neighbourMap, radii, sideVars, nodes, links, drawn, simVars, pointerVars,
                     gesture>>

----------------------------------------------------------------------------
(* Click handlers *)

RSq(a) == RMul(a, a)

(* the denominator dx * dx + dy * dy of the projection parameter t *)
projectionDenominator(a, b) ==
  (b[1] - a[1]) * (b[1] - a[1]) + (b[2] - a[2]) * (b[2] - a[2])

(* distToSegment reaches the division: not (dx === 0 && dy === 0) *)
projects(a, b) == ~(b[1] - a[1] = 0 /\ b[2] - a[2] = 0)

(* square of distToSegment(px, py, ax, ay, bx, by), in fixed point: the
   arguments are grid coordinates, the projection parameter t is kept to
   1 / TSteps.  The code compares the distances only with each other and
   with the threshold, all non-negative, so the squares decide the same
   comparisons. *)
distToSegment2(p, a, b) ==
  LET dx == b[1] - a[1]
      dy == b[2] - a[2]
      dot == (p[1] - a[1]) * dx + (p[2] - a[2]) * dy
      len2 == projectionDenominator(a, b)
      \* numerator and denominator of t brought into range together
      k == ((IF Abs(dot) > len2 THEN Abs(dot) ELSE len2) \div 10000000) + 1
      den == IF len2 \div k > 0 THEN len2 \div k ELSE 1
      t0 == RoundDiv((dot \div k) * TSteps, den)
      t == IF t0 < 0 THEN 0 ELSE IF t0 > TSteps THEN TSteps ELSE t0
      projX == a[1] + RoundDiv(t * dx, TSteps)
      projY == a[2] + RoundDiv(t * dy, TSteps)
  IN  IF ~projects(a, b)
      THEN (p[1] - a[1]) * (p[1] - a[1]) + (p[2] - a[2]) * (p[2] - a[2])
      ELSE (p[1] - projX) * (p[1] - projX) + (p[2] - projY) * (p[2] - projY)

(* a projection parameter left as computed *)
clampOpen(t) == t

(* t = Math.max(0, Math.min(1, t)) *)
clamp(t) == RMax(RInt(0), RMin(RInt(1), t))

(* square of distToSegment(px, py, ax, ay, bx, by) for integer arguments,
   in exact arithmetic; Math.hypot is the root of the sum of squares, so the
   square of the result is that sum *)
distToSegmentSq(p, a, b) ==
  LET dx == b[1] - a[1]
      dy == b[2] - a[2]
      t == clamp(Rat((p[1] - a[1]) * dx + (p[2] - a[2]) * dy,
                     projectionDenominator(a, b)))
      projX == RAdd(RInt(a[1]), RMul(t, RInt(dx)))
      projY == RAdd(RInt(a[2]), RMul(t, RInt(dy)))
  IN  IF ~projects(a, b)
      THEN RInt((p[1] - a[1]) * (p[1] - a[1]) + (p[2] - a[2]) * (p[2] - a[2]))
      ELSE RAdd(RSq(RSub(RInt(p[1]), projX)), RSq(RSub(RInt(p[2]), projY)))

(* a call of distToSegment returns *)
distToSegmentReturns ==
  /\ ~distCall.returned
  /\ distCall' = [distCall EXCEPT !.returned = TRUE,
                                  !.d2 = distToSegmentSq(distCall.p, distCall.a, distCall.b)]
  /\ UNCHANGED <<signVars, savesIssued, suggestCall>>
  /\ UNCHANGED <<lifeVars, dataVars, watchVars, selVars, rendered, neighbourMap,
                 radii, nodes, links, drawn, simVars, viewVars, pointerVars,
                 gesture, nInput>>

FixPoint(q) == <<ToFix(q[1]), ToFix(q[2])>>

LinkDist2(p, i) ==
  distToSegment2(FixPoint(p),
                 FixPoint(<<nodes[links[i].source].x, nodes[links[i].source].y>>),
                 FixPoint(<<nodes[links[i].target].x, nodes[links[i].target].y>>))

(* the link the forEach loop leaves in `nearest`: the first of least distance *)
nearestLink(p) ==
  CHOOSE i \in 1..Len(links) :
    /\ \A j \in 1..Len(links) : LinkDist2(p, i) <= LinkDist2(p, j)
    /\ \A j \in 1..(i - 1) : LinkDist2(p, i) < LinkDist2(p, j)

(* a hit test that leaves out the threshold distance itself *)
WithinThresholdStrict(d2) ==
  RLt(RInt(d2), RSq(RDiv(RInt(thresholdScreen * Unit), scale)))

(* minDist <= thresholdGraph, thresholdGraph = 25 / scale: the integer d2
   is at most the rational square of the threshold when it is at most its
   integer part *)
WithinThreshold(d2) ==
  LET limit == RSq(RDiv(RInt(thresholdScreen * Unit), scale))
  IN  d2 <= limit[1] \div limit[2]

LinkRef(i) ==
  [idx |-> i, stale |-> FALSE,
   src |-> nodes[links[i].source].id, tgt |-> nodes[links[i].target].id]

(* click reaching the svg: select the nearest link within 25 / scale of the
   click point, else clear the selection.  Reading the position of an
   undefined endpoint throws before anything is selected. *)
svgClick(pt) ==
  IF HasDangling(links)
  THEN UNCHANGED selVars
  ELSE IF /\ Len(links) > 0
          /\ WithinThreshold(LinkDist2(ToSim(pt), nearestLink(ToSim(pt))))
       THEN onLinkSelect(LinkRef(nearestLink(ToSim(pt))))
       ELSE onNodeSelect(Null)

(* click on a circle of node i *)
nodeClick(i) == onNodeSelect(nodes[i].id)

(* mouseup reaching the svg, followed by the click the browser dispatches:
   on the element itself when the button is released on the element it was
   pressed on; otherwise, depending on the browser, none or one on their
   common ancestor, which reaches the svg *)
svgMouseUp(target, pt) ==
  /\ Interactive
  /\ target \in {Background, Label} \cup 1..Len(nodes)
  /\ draggingNode' = 0
  /\ isPanning' = FALSE
  /\ IF gesture.down
     THEN IF gesture.target = target
          THEN IF target >= 1 THEN nodeClick(target) ELSE svgClick(pt)
          ELSE UNCHANGED selVars \/ svgClick(pt)
     ELSE UNCHANGED selVars
  /\ gesture' = IdleGesture
  /\ UNCHANGED <<lifeVars, dataVars, watchVars, rendered, neighbourMap, radii, sideVars, nodes,
                 links, drawn, simVars, viewVars, dragOffset, panStart, nInput>>

----------------------------------------------------------------------------
(* Specifications *)

Outcomes == {"rows", "empty", "error"}

(* a visit up to the render pass, without a change of persona *)
StartOf(personas, outcomes, lays) ==
  \/ \E id \in personas, lay \in lays : setPersona(id, lay)
  \/ \E outcome \in outcomes, lay \in lays : loadCommunityData(outcome, lay)

LifecycleOf(personas, outcomes, lays) ==
  \/ StartOf(personas, outcomes, lays)
  \/ resetPersona

Lifecycle == LifecycleOf(Personas, Outcomes, Layouts)

Panels ==
  \/ ClosePanel
  \/ \E id \in DataNodeIds \cup {"missing"} : OpenNode(id)
  \/ addToWatchlist
  \/ \E id \in DataNodeIds : removeFromWatchlist(id)

Frames == \E f \in pending : tick(f)

(* pointer events: presses at the points of `press`, moves to and releases
   at the points of `to` *)
PointerOf(press, to) ==
  \/ \E i \in 1..Len(nodes), pt \in press : nodeMouseDown(i, pt)
  \/ \E target \in {Background, Label}, pt \in press : svgMouseDown(target, pt)
  \/ \E pt \in to : svgMouseMove(pt)
  \/ \E target \in {Background, Label} \cup 1..Len(nodes), pt \in to :
       svgMouseUp(target, pt)
  \/ svgMouseLeave

Pointer == PointerOf(Points, Points)

Zoom == \E deltaY \in DeltaYs, pt \in Points : svgWheel(deltaY, pt)

Next == Lifecycle \/ Panels \/ Frames \/ Pointer \/ Zoom

Spec == Init /\ [][Next]_vars

(* the simulation alone: render passes and frame callbacks *)
NextSim == Lifecycle \/ Frames

SpecSim == Init /\ [][NextSim]_vars

(* scheduling of the simulation: render passes, frame callbacks and the
   handlers of a press on a node *)
NextSched ==
  \/ LifecycleOf({"founder"}, {"rows"}, {1})
  \/ Frames
  \/ \E i \in 1..Len(nodes) : nodeMouseDown(i, <<50, 60>>)
  \/ svgMouseUp(Background, <<50, 60>>)
  \/ svgMouseLeave

SpecSched == InitPair /\ [][NextSched]_vars

(* one uninterrupted render pass under fair delivery of frame callbacks *)
NextRun == StartOf({"founder"}, Outcomes, Layouts) \/ Frames

(* the host delivers a pending frame callback: seen on simVars, a delivery
   is a step of the end of tick *)
FrameDelivery == \E f \in pending : tickSchedule(f)

SpecRun == InitFresh /\ [][NextRun]_vars /\ WF_simVars(FrameDelivery)

(* the data adapter on arbitrary datasets *)
NextData == StartOf({"founder"}, Outcomes, Layouts) \/ Frames

SpecData == InitWith({Null}, {<<>>}, Datasets) /\ [][NextData]_vars

(* selection: clicks on nodes and on the background, the panel buttons that
   open, close and add; removals from the watchlist are in NextWatch *)
NextSelect ==
  \/ LifecycleOf({"founder"}, {"rows"}, {1})
  \/ ClosePanel
  \/ \E id \in DataNodeIds \cup {"missing"} : OpenNode(id)
  \/ ~onWatchlist(watchlist, detailsPanel.a) /\ addToWatchlist
  \/ \E i \in 1..Len(nodes) : nodeMouseDown(i, <<50, 60>>)
  \/ svgMouseDown(Background, <<50, 60>>)
  \/ \E target \in {Background} \cup 1..Len(nodes) : svgMouseUp(target, <<50, 60>>)

SpecSelect == Init /\ [][NextSelect]_vars

(* the pointer state machine *)
NextPointer ==
  \/ StartOf({"founder"}, {"rows"}, {1})
  \/ PointerOf({<<50, 60>>}, Points)

SpecPointer == InitFresh /\ [][NextPointer]_vars

(* pan and zoom *)
NextZoom ==
  \/ StartOf({"founder"}, {"rows"}, Layouts)
  \/ Zoom
  \/ \E pt \in Points : svgMouseDown(Background, pt)
  \/ \E pt \in Points : svgMouseMove(pt)
  \/ \E pt \in Points : svgMouseUp(Background, pt)

SpecZoom == InitFresh /\ [][NextZoom]_vars

----------------------------------------------------------------------------
(* Properties *)

(* C1: selectedNode and selectedLink are never both set, whatever sequence
   of node selections, link selections, panel closes, watchlist removals and
   persona resets has run *)
SelectionExclusive == ~(selectedNode # Null /\ selectedLink # NoLink)

(* a link is selected after a node was selected and put on the watchlist *)
LinkSelectedAfterNode ==
  /\ selectedLink # NoLink
  /\ selectedNode = Null
  /\ \E i \in 1..Len(watchlist) : watchlist[i] = "b"

(* C2: at most one tick callback is pending, it is the one simulationId
   names, and it belongs to the current render pass: no callback of a
   superseded pass is left to run *)
OneTickPending ==
  /\ Cardinality(pending) <= 1
  /\ \A f \in pending : f.cur /\ f.id = simulationId

(* the second of two render passes has ticked and has its next tick pending *)
SecondPassTicking ==
  /\ \E i, j \in 1..Len(DATA.nodes) :
       i < j /\ DATA.nodes[i].id = "p" /\ DATA.nodes[j].id = "p"
  /\ tickCount > 0
  /\ Cardinality(pending) = 1

(* C3: an uninterrupted pass never counts more than maxTicks ticks, has a
   tick pending exactly while it counted fewer, and under fair frame
   delivery reaches tickCount = maxTicks with simulationId null and nothing
   pending *)
HundredTicksThenStop ==
  /\ [](/\ tickCount <= maxTicks
        /\ (pending # {} => tickCount < maxTicks)
        /\ (rendered /\ tickCount < maxTicks => simulationId # 0 /\ pending # {}))
  /\ (rendered ~> (tickCount = maxTicks /\ simulationId = 0 /\ pending = {}))

(* the pass has run its last tick *)
PassCompleted ==
  rendered /\ tickCount = maxTicks /\ simulationId = 0 /\ pending = {}

(* C4: a press on a node leaves simulationId null and no callback pending,
   and a stopped simulation stays stopped, its tick count unchanged, until a
   render pass starts *)
PressStopsSimulation ==
  [][ /\ (\E i \in 1..Len(nodes), pt \in Points : nodeMouseDown(i, pt))
           => (simulationId' = 0 /\ pending' = {})
      /\ (rendered /\ simulationId = 0 /\ pending = {})
           => \/ simulationId' = 0 /\ pending' = {} /\ tickCount' = tickCount
              \/ StartOf(Personas, Outcomes, Layouts) ]_vars

(* a drag that interrupted the pass has ended and the simulation is stopped *)
StoppedAfterDragEnded ==
  /\ rendered /\ draggingNode = 0 /\ ~gesture.down
  /\ simulationId = 0 /\ pending = {}
  /\ tickCount > 0 /\ tickCount < maxTicks

(* C5: a node drag and a pan are never in progress together, whatever
   sequence of presses, moves, releases, leaves and wheel events has run *)
DragExcludesPan == ~(draggingNode # 0 /\ isPanning)

(* C6: the release that ends a drag of a node or of the background, the
   pointer having moved since the press, changes neither selectedNode nor
   selectedLink *)
DragReleaseKeepsSelection ==
  [][ ( /\ gesture.down /\ gesture.moved
        /\ (draggingNode # 0 \/ isPanning)
        /\ \E target \in {Background, Label} \cup 1..Len(nodes), pt \in Points :
             svgMouseUp(target, pt) )
      => UNCHANGED <<selectedNode, selectedLink>> ]_vars

(* the links of DATA both of whose endpoints are ids of DATA.nodes *)
ResolvableLinks ==
  { i \in 1..Len(DATA.links) :
      DATA.links[i].source \in DataNodeIds /\ DATA.links[i].target \in DataNodeIds }

(* C7: the render pass builds one SimLink per link whose endpoints both
   exist, none for a link with an absent endpoint, and reports one
   data-integrity fault per such link *)
DanglingLinksDroppedAndReported ==
  rendered =>
    /\ Len(links) = Cardinality(ResolvableLinks)
    /\ diagnostics.integrity = Len(DATA.links) - Cardinality(ResolvableLinks)

(* C8: after a render pass every SimLink joins two SimNodes of the current
   array, no tick throws, and so the handle of a running simulation always
   names a pending callback *)
TicksSurviveDanglingLinks ==
  rendered =>
    /\ \A i \in 1..Len(links) :
         links[i].source \in 1..Len(nodes) /\ links[i].target \in 1..Len(nodes)
    /\ ~TickThrows(links)
    /\ (simulationId # 0 => \E f \in pending : f.id = simulationId)

(* C9: the zoom scale stays within [0.5, 4] after any wheel events *)
ScaleWithinLimits == RLe(Rat(1, 2), scale) /\ RLe(scale, RInt(4))

(* wheel events have zoomed in until the clamp applied *)
ZoomedToUpperLimit == rendered /\ scale = RInt(4) /\ nInput > 0

(* C10: a wheel event leaves the graph-space point under the cursor where
   it was: (P - offset) / scale is the same before and after, clamped or not *)
ZoomKeepsCursorPoint ==
  [][ \A deltaY \in DeltaYs, pt \in Points :
        svgWheel(deltaY, pt)
          => /\ RDiv(RSub(RInt(pt[1]), offsetX'), scale') = ToSim(pt)[1]
             /\ RDiv(RSub(RInt(pt[2]), offsetY'), scale') = ToSim(pt)[2] ]_vars

(* a second wheel event was clamped at the lower limit, the view moved *)
ZoomedOutClamped ==
  /\ rendered /\ nInput = MaxInput
  /\ scale = Rat(1, 2)
  /\ offsetX # RInt(0)

(* dragging at several zoom levels: wheel events, presses on nodes, moves *)
NextDrag ==
  \/ StartOf({"founder"}, {"rows"}, {1})
  \/ \E deltaY \in {-500, 500} : svgWheel(deltaY, <<50, 60>>)
  \/ \E i \in 1..Len(nodes), pt \in Points : nodeMouseDown(i, pt)
  \/ \E pt \in Points : svgMouseMove(pt)
  \/ svgMouseLeave

SpecDrag == InitPair /\ [][NextDrag]_vars

(* C11: while the view transform is the one of the press, a move to P1 of a
   drag started at P0 on a node at N0 puts that node at N0 + (P1 - P0) / scale
   (at N0 when P1 = P0) and changes no other node *)
DragFollowsPointer ==
  [][ \A pt \in Points :
        ( /\ svgMouseMove(pt)
          /\ draggingNode # 0 /\ gesture.down /\ gesture.target = draggingNode
          /\ gesture.view = <<offsetX, offsetY, scale>> )
        => /\ nodes'[draggingNode].x =
                RAdd(gesture.origin[1], RDiv(RInt(pt[1] - gesture.at[1]), scale))
           /\ nodes'[draggingNode].y =
                RAdd(gesture.origin[2], RDiv(RInt(pt[2] - gesture.at[2]), scale))
           /\ \A j \in 1..Len(nodes) : j # draggingNode => nodes'[j] = nodes[j] ]_vars

(* a node dragged away from where it was pressed, at a zoom other than 1 *)
DraggedAwayZoomed ==
  /\ draggingNode # 0 /\ gesture.down /\ gesture.moved
  /\ gesture.target = draggingNode
  /\ scale # RInt(1)
  /\ gesture.view = <<offsetX, offsetY, scale>>
  /\ <<nodes[draggingNode].x, nodes[draggingNode].y>> # gesture.origin

(* background clicks around the link a - b, which layout 1 draws from
   (40, 60) to (120, 60): press and release points 24, 25 and 26 pixels
   below its middle, and one far from it *)
ClickPoints == { <<80, 84>>, <<80, 85>>, <<80, 86>>, <<150, 100>> }

NextClick ==
  \/ StartOf({"founder"}, {"rows"}, {1})
  \/ \E deltaY \in {-500, 500} : svgWheel(deltaY, <<80, 60>>)
  \/ \E pt \in ClickPoints : svgMouseDown(Background, pt)
  \/ \E pt \in ClickPoints : svgMouseUp(Background, pt)
  \/ \E i \in 1..Len(nodes) : nodeMouseDown(i, <<40, 60>>)
  \/ \E i \in 1..Len(nodes) : svgMouseUp(i, <<40, 60>>)

SpecClick ==
  InitWith({Null}, {<<>>}, {PairDataset, LinklessDataset}) /\ [][NextClick]_vars

(* the square of thresholdGraph = 25 / scale, on the grid *)
ThresholdGraph2 == RSq(RDiv(RInt(thresholdScreen * Unit), scale))

(* C12: a click on the background at simulation-space point p selects a link
   of least distance to p when that distance is at most 25 / scale and the
   node selection is cleared; otherwise, and when there are no links, both
   selectedNode and selectedLink become null.  At scale 1 a link 24 away is
   selected and a link 26 away is not *)
ClickSelectsNearestLink ==
  [][ \A pt \in ClickPoints :
        ( /\ svgMouseUp(Background, pt)
          /\ gesture.down /\ gesture.target = Background )
        => LET p == ToSim(pt)
               least == { i \in 1..Len(links) :
                            \A j \in 1..Len(links) : LinkDist2(p, i) <= LinkDist2(p, j) }
               near == { i \in least : RLe(RInt(LinkDist2(p, i)), ThresholdGraph2) }
           IN  /\ selectedNode' = Null
               /\ IF near # {}
                  THEN selectedLink'.idx \in near /\ ~selectedLink'.stale
                  ELSE selectedLink' = NoLink
               /\ (scale = RInt(1) /\ Len(links) = 1 /\ LinkDist2(p, 1) = (24 * Unit) * (24 * Unit))
                    => selectedLink'.idx = 1
               /\ (scale = RInt(1) /\ Len(links) = 1 /\ LinkDist2(p, 1) = (26 * Unit) * (26 * Unit))
                    => selectedLink' = NoLink ]_vars

(* a link selected by a background click at a zoom other than 1, the panel
   showing it *)
LinkPickedZoomed ==
  /\ selectedLink # NoLink /\ ~selectedLink.stale
  /\ selectedNode = Null
  /\ detailsPanel.kind = "link"
  /\ scale # RInt(1)
  /\ ~gesture.down

(* every link list of at most MaxLinks links over three nodes: self links,
   repeated links and links in both directions included *)
TrioNodes == <<DNode("a", "startup"), DNode("b", "investor"), DNode("c", "startup")>>

LinkLists ==
  UNION { [1..n -> { DLink(x, y) : x, y \in {"a", "b", "c"} }] : n \in 0..MaxLinks }

NextNeighbours == StartOf({"founder"}, {"rows", "error"}, {1})

SpecNeighbours ==
  /\ InitWith({Null}, {<<>>}, { [nodes |-> TrioNodes, links |-> ll] : ll \in LinkLists })
  /\ [][NextNeighbours]_vars

(* C13: the neighbour index of a render pass holds, for every link (a, b)
   of the link list, b under a and a under b, and holds y under x only if
   some link joins x and y *)
NeighbourMapSymmetric ==
  rendered =>
    /\ \A i \in 1..Len(DATA.links) :
         /\ <<DATA.links[i].source, DATA.links[i].target>> \in neighbourMap
         /\ <<DATA.links[i].target, DATA.links[i].source>> \in neighbourMap
    /\ \A e \in neighbourMap :
         /\ <<e[2], e[1]>> \in neighbourMap
         /\ \E i \in 1..Len(DATA.links) :
              \/ DATA.links[i].source = e[1] /\ DATA.links[i].target = e[2]
              \/ DATA.links[i].source = e[2] /\ DATA.links[i].target = e[1]

(* an index built from two links of which none is listed in both directions *)
IndexOfOneWayLinks ==
  /\ rendered
  /\ Len(DATA.links) = 2
  /\ DATA.links[1].source # DATA.links[1].target
  /\ DATA.links[1] # DATA.links[2]
  /\ \A i, j \in 1..2 : DATA.links[i].source # DATA.links[j].target
  /\ <<DATA.links[1].target, DATA.links[1].source>> \in neighbourMap

(* node k selected by a click on one of its circles, or by an "Open" button
   or a watchlist entry, which look the id up with DATA.nodes.find *)
NodeSelectStep(k) ==
  /\ rendered
  /\ k \in 1..Len(nodes)
  /\ \/ svgMouseUp(k, <<50, 60>>) /\ gesture.down /\ gesture.target = k
     \/ /\ OpenNode(nodes[k].id)
        /\ \A j \in 1..(k - 1) : nodes[j].id # nodes[k].id

(* the primitives em as the selection of node k should leave them *)
NodeStandsOut(em, k) ==
  /\ \A j \in 1..Len(nodes) :
       /\ em.nodes[j].opacity =
            IF j = k \/ <<nodes[k].id, nodes[j].id>> \in neighbourMap THEN 100 ELSE 20
       /\ em.nodes[j].strokeWidth = IF j = k THEN 2 ELSE 1
  /\ \A j \in 1..Len(links) :
       em.links[j].opacity =
         IF links[j].source = k \/ links[j].target = k THEN 100 ELSE 5

(* C14: right after node X is selected, X and the nodes listed under X in
   the neighbour index have opacity 1 and every other node 0.2, X alone has
   the thicker stroke, the links ending at X have opacity 1 and every other
   link 0.05 *)
SelectedNodeStandsOut ==
  [][ \A k \in 1..Len(nodes) : NodeSelectStep(k) => NodeStandsOut(emphasis', k) ]_vars

(* selection by clicks on the graph of one render pass *)
NextHighlight ==
  \/ StartOf({"founder"}, {"rows"}, {1})
  \/ \E i \in 1..Len(nodes) : nodeMouseDown(i, <<50, 60>>)
  \/ svgMouseDown(Background, <<50, 60>>)
  \/ \E target \in {Background} \cup 1..Len(nodes) : svgMouseUp(target, <<50, 60>>)

SpecHighlight == InitFresh /\ [][NextHighlight]_vars

(* C15: right after link L is selected, its two endpoint nodes have opacity
   1 and the thicker stroke and every other node opacity 0.2 and the thin
   one, L has opacity 1 and the thicker stroke and every other link opacity
   0.05 and the thin one, and every hit line has stroke width 18 *)
SelectedLinkStandsOut ==
  [][ ( /\ svgMouseUp(Background, <<50, 60>>)
        /\ gesture.down /\ gesture.target = Background
        /\ selectedLink' # NoLink )
      => LET L == selectedLink'.idx
         IN  /\ L \in 1..Len(links)
             /\ \A j \in 1..Len(nodes) :
                  emphasis'.nodes[j] =
                    IF j = links[L].source \/ j = links[L].target
                    THEN Style(100, 2) ELSE Style(20, 1)
             /\ \A j \in 1..Len(links) :
                  emphasis'.links[j] = IF j = L THEN Style(100, 2) ELSE Style(5, 1)
             /\ \A j \in 1..Len(links) : emphasis'.hitLines[j] = 18 ]_vars

(* a link selected among two: the link emphasised, a node that is none of
   its endpoints and the other link dimmed *)
LinkStandsOutOfTwo ==
  /\ selectedLink # NoLink /\ ~selectedLink.stale
  /\ Len(links) = 2
  /\ emphasis.links[selectedLink.idx] = Style(100, 2)
  /\ \E j \in 1..Len(nodes) : emphasis.nodes[j] = Style(20, 1)
  /\ \E j \in 1..Len(links) : emphasis.links[j] = Style(5, 1)

(* persona choices, persona resets and answers of the community table in
   every order *)
SpecLifecycle == InitFresh /\ [][Lifecycle]_vars

(* C16: the SimNodes of the render pass have pairwise distinct ids, whatever
   the order of setPersona calls, resetPersona calls and completions of the
   community-data load *)
NodeIdsDistinct ==
  rendered => \A i, j \in 1..Len(nodes) : nodes[i].id = nodes[j].id => i = j

(* C17: a selected link is a link of the current render pass and its
   endpoints are nodes of the current render pass *)
SelectedLinkIsCurrent ==
  selectedLink # NoLink =>
    /\ ~selectedLink.stale
    /\ selectedLink.idx \in 1..Len(links)
    /\ links[selectedLink.idx].source \in 1..Len(nodes)
    /\ links[selectedLink.idx].target \in 1..Len(nodes)

(* the simulation and drags: frame callbacks, presses on nodes, moves *)
NextSync ==
  \/ StartOf({"founder"}, {"rows"}, {1})
  \/ Frames
  \/ \E i \in 1..Len(nodes) : nodeMouseDown(i, <<50, 60>>)
  \/ \E pt \in Points : svgMouseMove(pt)
  \/ svgMouseLeave

SpecSync == InitPair /\ [][NextSync]_vars

(* the primitives d at the positions of the simulation state ns, ls *)
Synced(d, ns, ls) ==
  /\ \A i \in 1..Len(ns) :
       /\ d.nodeEls[i] = <<ns[i].x, ns[i].y>>
       /\ d.hitNodeEls[i] = <<ns[i].x, ns[i].y>>
       /\ d.textEls[i] = <<ns[i].x, RSub(ns[i].y, RInt(14))>>
  /\ \A i \in 1..Len(ls) :
       /\ d.linkEls[i] = <<ns[ls[i].source].x, ns[ls[i].source].y,
                           ns[ls[i].target].x, ns[ls[i].target].y>>
       /\ d.hitLineEls[i] = d.linkEls[i]

(* C18: after each tick, and after each pointer move while a node is
   dragged, also when the simulation has stopped, every node circle and hit
   circle is at its node's (x, y), every label at (x, y - 14), and every
   visible line and hit line runs from its source node to its target node *)
PrimitivesFollowSimulation ==
  [][ ( \/ \E f \in pending : tick(f)
        \/ \E pt \in Points : svgMouseMove(pt) /\ draggingNode # 0 )
      => Synced(drawn', nodes', links') ]_vars

(* a node of a link dragged away after the simulation was stopped, no
   frame callback pending, the primitives at the new position *)
DraggedWhileStopped ==
  /\ draggingNode # 0 /\ gesture.moved
  /\ simulationId = 0 /\ pending = {}
  /\ tickCount > 0
  /\ <<nodes[draggingNode].x, nodes[draggingNode].y>> # gesture.origin
  /\ drawn.nodeEls[draggingNode] = <<nodes[draggingNode].x, nodes[draggingNode].y>>
  /\ \E i \in 1..Len(links) : links[i].source = draggingNode

(* the steps that end a drag: mouseup and mouseleave on the svg, and a
   render pass *)
DragEnds ==
  \/ \E target \in {Background, Label} \cup 1..Len(nodes), pt \in Points :
       svgMouseUp(target, pt)
  \/ svgMouseLeave
  \/ \E outcome \in Outcomes, lay \in Layouts : loadCommunityData(outcome, lay)

(* C19: a pointer-up, a pointer-leave and the start of a render pass leave
   the dragged-node reference null and the captured offset cleared, and
   while no node is dragged a pointer move changes no node position *)
DragStateCleared ==
  [][ /\ DragEnds =>
           /\ draggingNode' = 0
           /\ dragOffset' = <<RInt(0), RInt(0)>>
      /\ \A pt \in Points :
           (draggingNode = 0 /\ svgMouseMove(pt)) => nodes' = nodes ]_vars

(* C20: a tick, a drag update and a render pass leave every entry of
   DATA.nodes and DATA.links as it was: positions, velocities and forces are
   written to the SimNodes only *)
SourceDatasetUntouched ==
  [][ ( \/ \E f \in pending : tick(f)
        \/ \E pt \in Points : svgMouseMove(pt) /\ draggingNode # 0
        \/ \E outcome \in Outcomes, lay \in Layouts : loadCommunityData(outcome, lay) )
      => /\ Len(DATA'.nodes) >= Len(DATA.nodes)
         /\ \A i \in 1..Len(DATA.nodes) : DATA'.nodes[i] = DATA.nodes[i]
         /\ DATA'.links = DATA.links ]_vars

(* a render pass that copied the fetched rows too, ticks that moved the
   nodes, then a drag that moved one *)
SimulatedAndDragged ==
  /\ rendered
  /\ Len(DATA.nodes) = 3
  /\ tickCount > 1
  /\ draggingNode # 0 /\ gesture.moved
  /\ \E i \in 1..Len(nodes) :
       i # draggingNode /\ nodes[i].x # RInt(LayoutPos(1, i)[1])
  /\ <<nodes[draggingNode].x, nodes[draggingNode].y>> # gesture.origin

(* node sizes: zero, negative, small, those of data.js, fractional *)
Sizes == { RInt(0), RInt(-8), RInt(1), RInt(4), RInt(5), RInt(10), RInt(13), Rat(5, 2) }

(* datasets of two nodes, the first with a size, the second with or without *)
SizedDatasets ==
  { [nodes |-> <<SizedNode("a", "startup", s),
                 IF t = Undefined THEN DNode("b", "investor")
                 ELSE SizedNode("b", "investor", t)>>,
     links |-> <<DLink("a", "b")>>] : s \in Sizes, t \in Sizes \cup {Undefined} }

NextRadius == StartOf({"founder"}, {"rows", "empty"}, {1})

SpecRadius == InitWith({Null}, {<<>>}, SizedDatasets) /\ [][NextRadius]_vars

(* C21: the marker radius of a node is max(4, 3 + size * 0.25) when its size
   is defined, size 0 included, and 5 when it is not, hence at least 4; the
   radius of the hit circle is three times the marker radius *)
RadiusFromSize ==
  rendered =>
    \A i \in 1..Len(nodes) :
      /\ radii.vis[i] =
           IF nodes[i].size # Undefined
           THEN RMax(RInt(4), RAdd(RInt(3), RMul(nodes[i].size, Rat(1, 4))))
           ELSE RInt(5)
      /\ RLe(RInt(4), radii.vis[i])
      /\ radii.hit[i] = RMul(RInt(3), radii.vis[i])

(* the watchlist and its store: selections, the watchlist buttons, reloads
   whose query succeeds *)
NextWatch ==
  \/ StartOf({"founder"}, {"rows"}, {1})
  \/ \E i \in 1..Len(nodes) : nodeMouseDown(i, <<50, 60>>)
  \/ \E i \in 1..Len(nodes) : svgMouseUp(i, <<50, 60>>)
  \/ Panels
  \/ handleSignedIn("rows")

SpecWatch == Init /\ [][NextWatch]_vars

(* C22: a reload of the watchlist from the store, every change having been
   saved, loads exactly the ids of the watchlist in memory; a removed id
   does not come back *)
WatchlistRoundTrip ==
  [][ handleSignedIn("rows") =>
        { watchlist'[i] : i \in 1..Len(watchlist') } =
        { watchlist[i] : i \in 1..Len(watchlist) } ]_vars

(* the steps in which renderGraph runs: the end of setPersona, at once when
   the community data is loaded, else when the community table has answered *)
RenderPass ==
  \/ \E outcome \in Outcomes, lay \in Layouts : loadCommunityData(outcome, lay)
  \/ \E id \in Personas, lay \in Layouts : communityDataLoaded /\ setPersona(id, lay)

(* render passes after ticks, zooms and a press on the background *)
NextView ==
  \/ LifecycleOf({"founder"}, {"rows"}, {1})
  \/ Frames
  \/ svgWheel(-500, <<50, 60>>)
  \/ svgMouseDown(Background, <<50, 60>>)

SpecView == InitPair /\ [][NextView]_vars

(* C23: at the end of every renderGraph call the view transform is the
   identity, whatever the pan and zoom of the pass before, and the new pass
   starts idle, with tickCount 0 and every node velocity 0 *)
RenderResetsView ==
  [][ RenderPass =>
        /\ offsetX' = RInt(0) /\ offsetY' = RInt(0) /\ scale' = RInt(1)
        /\ draggingNode' = 0 /\ ~isPanning'
        /\ tickCount' = 0
        /\ \A i \in 1..Len(nodes') :
             nodes'[i].vx = RInt(0) /\ nodes'[i].vy = RInt(0) ]_vars

(* a second render pass begun, no tick of it run yet: it drew the rows
   that the fetch of the first pass and its own fetch both appended *)
RenderedAgain ==
  /\ rendered /\ appVisible
  /\ communityDataLoaded /\ fetching = 0
  /\ tickCount = 0 /\ simulationId # 0
  /\ scale = RInt(1) /\ offsetX = RInt(0) /\ offsetY = RInt(0)
  /\ Len(nodes) = 4

(* everything that happens during one render pass: ticks, presses on the
   first node and on the background, moves, releases with their clicks,
   zooms *)
NextPass ==
  \/ StartOf({"founder"}, {"rows"}, {1})
  \/ Frames
  \/ nodeMouseDown(1, <<50, 60>>)
  \/ svgMouseDown(Background, <<50, 60>>)
  \/ svgMouseMove(<<150, 100>>)
  \/ \E target \in {Background, 1} : svgMouseUp(target, <<50, 60>>)
  \/ svgWheel(-500, <<50, 60>>)

SpecPass == InitPair /\ [][NextPass]_vars

(* C24: a tick, a press on a node, a pointer move while a node is dragged,
   a click and a change of the selection leave offsetX, offsetY and scale
   as they are; they change only by a wheel event, by a pointer move while
   panning, and by the reset of a render pass *)
ViewChangesOnlyByZoomAndPan ==
  [][ ~UNCHANGED viewVars
      => /\ ~ \/ \E f \in pending : tick(f)
              \/ nodeMouseDown(1, <<50, 60>>)
              \/ svgMouseMove(<<150, 100>>) /\ draggingNode # 0
              \/ \E target \in {Background, 1} : svgMouseUp(target, <<50, 60>>)
              \/ selectedNode' # selectedNode
              \/ selectedLink' # selectedLink
         /\ \/ svgWheel(-500, <<50, 60>>)
            \/ svgMouseMove(<<150, 100>>) /\ isPanning /\ draggingNode = 0
            \/ RenderPass ]_vars

(* a link selected and a node dragged after ticks, the view panned or
   zoomed before *)
BusyPassOffIdentity ==
  /\ <<offsetX, offsetY, scale>> # <<RInt(0), RInt(0), RInt(1)>>
  /\ tickCount > 0
  /\ draggingNode # 0 /\ gesture.moved
  /\ selectedLink # NoLink

(* wheel events in every pointer state: idle, panning after a press on the
   background, dragging after a press on a node *)
WheelDeltas == { -5000, -500, 500 }

NextWheel ==
  \/ StartOf({"founder"}, {"rows"}, {1})
  \/ \E i \in 1..Len(nodes) : nodeMouseDown(i, <<50, 60>>)
  \/ svgMouseDown(Background, <<50, 60>>)
  \/ \E pt \in Points : svgMouseMove(pt)
  \/ \E target \in {Background} \cup 1..Len(nodes) : svgMouseUp(target, <<50, 60>>)
  \/ svgMouseLeave
  \/ \E deltaY \in WheelDeltas : svgWheel(deltaY, <<150, 100>>)

SpecWheel == InitPair /\ [][NextWheel]_vars

(* C25: a wheel event, in whatever pointer state, sets scale to
   scale * (1 - deltaY / 1000) clamped to [0.5, 4] and moves the offset so
   that the point under the cursor stays, and leaves the pointer state, the
   dragged node, the captured offset, every node, the selection and the
   running or stopped simulation as they are *)
WheelOnlyZooms ==
  [][ \A deltaY \in WheelDeltas :
        svgWheel(deltaY, <<150, 100>>)
        => LET s == RMax(Rat(1, 2), RMin(RInt(4), RMul(scale, Rat(1000 - deltaY, 1000))))
           IN  /\ scale' = s
               /\ offsetX' = RSub(RInt(150), RMul(RSub(RInt(150), offsetX), RDiv(s, scale)))
               /\ offsetY' = RSub(RInt(100), RMul(RSub(RInt(100), offsetY), RDiv(s, scale)))
               /\ UNCHANGED <<draggingNode, dragOffset, isPanning, panStart, nodes,
                              selectedNode, selectedLink, simulationId, pending,
                              tickCount>> ]_vars

(* the view zoomed during a drag: the node was pressed at scale 1 *)
ZoomedWhileDragging ==
  /\ draggingNode # 0 /\ gesture.down /\ gesture.target = draggingNode
  /\ gesture.view[3] = RInt(1)
  /\ scale # RInt(1)
  /\ simulationId = 0

(* C26: while panning, a pointer move adds the pointer's displacement since
   the previous pointer event to the offset, so that the offset has changed
   since the press on the background by the pointer position minus the
   position of the press; the scale and every node stay as they are *)
PanFollowsPointer ==
  [][ \A pt \in Points :
        (svgMouseMove(pt) /\ isPanning)
        => /\ offsetX' = RAdd(offsetX, RInt(pt[1] - panStart[1]))
           /\ offsetY' = RAdd(offsetY, RInt(pt[2] - panStart[2]))
           /\ (gesture.down /\ gesture.target = Background)
                => /\ offsetX' = RAdd(gesture.view[1], RInt(pt[1] - gesture.at[1]))
                   /\ offsetY' = RAdd(gesture.view[2], RInt(pt[2] - gesture.at[2]))
           /\ scale' = scale
           /\ nodes' = nodes ]_vars

(* the simulation alone: one render pass and its frame callbacks *)
NextTick ==
  \/ StartOf({"founder"}, {"rows", "empty"}, Layouts)
  \/ Frames

SpecTick == InitPair /\ [][NextTick]_vars

(* C27: a tick fills every node's accumulator with the link, charge,
   centering and cluster forces of the positions at its start, then gives
   every node v = (v + f) * 0.75 and position + v; no node has moved when a
   force is accumulated, and the primitives are at the new positions when
   the next frame is requested *)
TickIsSynchronous ==
  [][ \A f \in pending :
        (tickCount' # tickCount /\ tick(f))
        => /\ \A k \in 1..Len(nodes) :
                LET fx == LinkSum(nodes, links, k, Len(links), 1)
                          + ChargeSum(nodes, k, 1) + CentreForce(nodes, k)[1]
                    fy == LinkSum(nodes, links, k, Len(links), 2)
                          + ChargeSum(nodes, k, 2) + CentreForce(nodes, k)[2]
                    vx == RoundDiv((ToFix(nodes[k].vx) + fx) * dampingPercent, 100)
                    vy == RoundDiv((ToFix(nodes[k].vy) + fy) * dampingPercent, 100)
                IN  /\ nodes'[k].fx = FromFix(fx)
                    /\ nodes'[k].fy = FromFix(fy)
                    /\ nodes'[k].vx = FromFix(vx)
                    /\ nodes'[k].vy = FromFix(vy)
                    /\ nodes'[k].x = FromFix(ToFix(nodes[k].x) + vx)
                    /\ nodes'[k].y = FromFix(ToFix(nodes[k].y) + vy)
           /\ Synced(drawn', nodes', links) ]_vars

(* three nodes and a link in motion after several ticks *)
SeveralTicksRun ==
  /\ rendered
  /\ tickCount = 3
  /\ simulationId # 0
  /\ Len(nodes) = 3
  /\ Len(links) = 1
  /\ \A k \in 1..Len(nodes) : nodes[k].vx # RInt(0) \/ nodes[k].vy # RInt(0)

(* squared distance, in fixed point, of the nodes i and j of ns *)
Apart2(ns, i, j) ==
  LET dx == ToFix(ns[j].x) - ToFix(ns[i].x)
      dy == ToFix(ns[j].y) - ToFix(ns[i].y)
  IN  dx * dx + dy * dy

(* the component of the force f on node i along the direction from i to j:
   positive towards j, negative away from it *)
Towards(ns, i, j, f) ==
  f[1] * (ToFix(ns[j].x) - ToFix(ns[i].x)) + f[2] * (ToFix(ns[j].y) - ToFix(ns[i].y))

(* the link forces of a tick add up to zero over the nodes, and so do the
   charge forces *)
PairForcesCancel ==
  \A axis \in {1, 2} :
    /\ SeqSum([k \in 1..Len(nodes) |-> LinkSum(nodes, links, k, Len(links), axis)]) = 0
    /\ SeqSum([k \in 1..Len(nodes) |-> ChargeSum(nodes, k, axis)]) = 0

(* a link longer than 90 pulls its source towards its target, a shorter
   one pushes it away *)
SpringRestores ==
  \A i \in 1..Len(links) :
    LET l == links[i]
        far == (linkDistance * Unit) * (linkDistance * Unit)
    IN  /\ Apart2(nodes, l.source, l.target) > far
            => Towards(nodes, l.source, l.target, LinkForce(nodes, l)) >= 0
        /\ Apart2(nodes, l.source, l.target) < far
            => Towards(nodes, l.source, l.target, LinkForce(nodes, l)) <= 0

(* the charge force on the second node of a pair points away from the first *)
ChargeRepels ==
  \A i \in 1..Len(nodes), j \in 1..Len(nodes) :
    i < j => Towards(nodes, i, j, ChargeForce(nodes, i, j)) >= 0

(* C28: in every tick the link and charge forces are equal and opposite on
   the two nodes of a pair and add up to zero over the nodes; a link pulls
   its endpoints together beyond distance 90 and pushes them apart below
   it; the charge force pushes the two nodes of a pair apart *)
ForcesBalancedAndRepelling ==
  (rendered /\ ~TickThrows(links))
  => (PairForcesCancel /\ SpringRestores /\ ChargeRepels)

(* C29: the distance used by the spring force is max(1, Euclidean distance
   of the link's endpoints), also for distances strictly between 0 and 1 *)
SpringDistanceFloored ==
  (rendered /\ ~TickThrows(links))
  => \A i \in 1..Len(links) :
       LET l == links[i]
           root == ISqrt(Apart2(nodes, l.source, l.target))
       IN  springDistance(nodes, l) = IF root < Unit THEN Unit ELSE root

(* the configurations of C30: spread and coincident starts, a self-loop,
   no node at all; zooms and clicks on the background in the first frames *)
NextFinite ==
  \/ StartOf({"founder"}, {"empty"}, Layouts)
  \/ Frames
  \/ /\ tickCount <= 1
     /\ \/ \E deltaY \in {-5000, 5000} : svgWheel(deltaY, <<50, 60>>)
        \/ svgMouseDown(Background, <<100, 100>>)
        \/ svgMouseUp(Background, <<100, 100>>)

SpecFinite ==
  /\ InitWith({Null}, {<<>>}, {PairDataset, SelfLoopDataset, EmptyDataset})
  /\ [][NextFinite]_vars

(* C30: in every configuration of a render pass, with coincident nodes,
   links whose endpoints coincide, self-loops or no node at all, the spring
   denominator, the charge denominator, the denominator of the projection
   onto a link where distToSegment divides, and the scale are non-zero, and
   every node position is a finite number *)
NoZeroDenominator ==
  (rendered /\ ~TickThrows(links))
  => /\ \A i \in 1..Len(links) : springDistance(nodes, links[i]) # 0
     /\ \A i \in 1..Len(nodes), j \in 1..Len(nodes) :
          i < j => chargeDenominator(nodes, i, j) # 0
     /\ \A i \in 1..Len(links) :
          LET a == FixPoint(<<nodes[links[i].source].x, nodes[links[i].source].y>>)
              b == FixPoint(<<nodes[links[i].target].x, nodes[links[i].target].y>>)
          IN  projects(a, b) => projectionDenominator(a, b) # 0
     /\ scale[1] # 0 /\ scale[2] # 0
     /\ \A k \in 1..Len(nodes) : nodes[k].x[2] > 0 /\ nodes[k].y[2] > 0

(* a run to its last tick with a self-loop link, two nodes still on one
   point, the view zoomed and a link picked by a click *)
CoincidentRunFinished ==
  /\ rendered
  /\ tickCount = maxTicks
  /\ simulationId = 0
  /\ scale # RInt(1)
  /\ selectedLink # NoLink
  /\ \E i \in 1..Len(links) : links[i].source = links[i].target
  /\ \E i \in 1..Len(nodes), j \in 1..Len(nodes) :
       i < j /\ Apart2(nodes, i, j) = 0

(* calls of distToSegment with every choice of integer points *)
Coords == (0 - MaxCoord)..MaxCoord

InitSegment ==
  /\ InitGraph({Null}, {<<>>}, {PairDataset})
  /\ distCall \in [p : Coords \X Coords, a : Coords \X Coords, b : Coords \X Coords,
                   returned : {FALSE}, d2 : {RInt(0)}]
  /\ notesTable = {}
  /\ suggestCall = NoSuggestCall

NextSegment == distToSegmentReturns

SpecSegment == InitSegment /\ [][NextSegment]_vars

(* squared distance of two integer points *)
Dist2(p, q) == (p[1] - q[1]) * (p[1] - q[1]) + (p[2] - q[2]) * (p[2] - q[2])

(* C31: distToSegment(p, a, b) is the distance from p to the closest point
   of the segment ab: the distance to a when a = b or when p projects before
   a, the distance to b when p projects beyond b, the distance to the line
   through a and b when p projects between them, never less than the
   distance to that line and never more than the distance to an endpoint or
   to the midpoint (distances compared by their squares) *)
DistToSegmentIsClosest ==
  distCall.returned
  => LET p == distCall.p
         a == distCall.a
         b == distCall.b
         d2 == distCall.d2
         dx == b[1] - a[1]
         dy == b[2] - a[2]
         dot == (p[1] - a[1]) * dx + (p[2] - a[2]) * dy
         len2 == dx * dx + dy * dy
         cross == (p[1] - a[1]) * dy - (p[2] - a[2]) * dx
     IN  /\ a = b => d2 = RInt(Dist2(p, a))
         /\ (a # b /\ dot <= 0) => d2 = RInt(Dist2(p, a))
         /\ (a # b /\ dot >= len2) => d2 = RInt(Dist2(p, b))
         /\ (a # b /\ dot >= 0 /\ dot <= len2) => d2 = Rat(cross * cross, len2)
         /\ a # b => RLe(Rat(cross * cross, len2), d2)
         /\ RLe(d2, RInt(Dist2(p, a)))
         /\ RLe(d2, RInt(Dist2(p, b)))
         /\ RLe(d2, Rat(Dist2(<<2 * p[1], 2 * p[2]>>, <<a[1] + b[1], a[2] + b[2]>>), 4))

(* a call with a point off the line that projects beyond the end of a
   segment of positive length *)
BeyondTheEndpoint ==
  /\ distCall.returned
  /\ distCall.a # distCall.b
  /\ distCall.p = <<MaxCoord, 1>>
  /\ distCall.a = <<0, 0>>
  /\ distCall.b = <<1, 0>>
  /\ distCall.d2 = RInt(Dist2(distCall.p, distCall.b))

(* selections and their clearing in one render pass: clicks on nodes, on a
   link and on empty background, the panel buttons; node b may be put on
   the watchlist *)
ClearPoints == { <<50, 60>>, <<190, 10>> }

NextClear ==
  \/ StartOf({"founder"}, {"rows"}, {1})
  \/ ClosePanel
  \/ \E id \in DataNodeIds : OpenNode(id)
  \/ detailsPanel.a = "b" /\ addToWatchlist
  \/ \E i \in 1..Len(nodes) : nodeMouseDown(i, <<50, 60>>)
  \/ \E pt \in ClearPoints : svgMouseDown(Background, pt)
  \/ \E target \in {Background} \cup 1..Len(nodes), pt \in ClearPoints :
       svgMouseUp(target, pt)

SpecClear == InitFresh /\ [][NextClear]_vars

(* the selection is cleared by the close button or by a click *)
SelectionCleared ==
  /\ rendered
  /\ selectedNode' = Null
  /\ selectedLink' = NoLink
  /\ \/ ClosePanel
     \/ \E target \in {Background} \cup 1..Len(nodes), pt \in ClearPoints :
          svgMouseUp(target, pt)

(* every node and every link at opacity 1 and stroke width 1 *)
NothingStandsOut(em) ==
  /\ \A i \in DOMAIN em.nodes : em.nodes[i] = Style(100, 1)
  /\ \A i \in DOMAIN em.links : em.links[i] = Style(100, 1)

(* C32: when the selection is cleared by the close button of the details
   panel or by a click that selects nothing, every node has opacity 1 and
   stroke width 1 and every link opacity 1 and stroke width 1; in every
   state every hit line has stroke width 18 and pointer-events none *)
ClearedSelectionShowsAll ==
  [][ /\ SelectionCleared => NothingStandsOut(emphasis')
      /\ \A i \in DOMAIN emphasis'.hitLines :
           /\ emphasis'.hitLines[i] = 18
           /\ emphasis'.hitPointerEvents[i] = "none" ]_vars

(* nothing is selected and nothing stands out after node b was selected
   and put on the watchlist *)
ClearedAfterNode ==
  /\ rendered
  /\ appVisible
  /\ selectedNode = Null
  /\ selectedLink = NoLink
  /\ detailsPanel = DefaultPanel
  /\ watchlist = <<"b">>
  /\ Len(links) >= 1
  /\ NothingStandsOut(emphasis)

(* C33: between events the opacities and stroke widths of the current
   primitives are those highlightSelection gives for the current
   selectedNode and selectedLink, also after a render pass or resetPersona
   that followed a selection *)
EmphasisMatchesSelection ==
  rendered => emphasis = highlightSelection(selectedNode, selectedLink, emphasis)

(* C34: a render pass runs only while a persona is set, in every
   interleaving of setPersona, the answers of the community load and
   resetPersona *)
RenderOnlyWithPersona ==
  [][ RenderPass => persona' # Null ]_vars

(* the number of entries of DATA.nodes that are the community row r *)
Copies(r) == Cardinality({ i \in 1..Len(DATA.nodes) : DATA.nodes[i] = r })

(* C35: no row of the community table is in DATA.nodes more than once,
   whatever the order of setPersona calls and answers of the load, also
   when a second setPersona is issued while the first load is in flight *)
CommunityRowsAppendedOnce ==
  \A k \in 1..Len(CommunityNodes) : Copies(CommunityNodes[k]) <= 1

(* the sign-in form: signed-out notifications and submits, during a visit *)
Emails == { "", "user@example.org" }

NextAuth ==
  \/ StartOf({"founder"}, Outcomes, {1})
  \/ handleSignedOut
  \/ \E email \in Emails : submitAuthForm(email)
  \/ handleSignedIn("rows")

SpecAuth == InitFresh /\ [][NextAuth]_vars

(* C36: one submit of the sign-in form issues at most one signInWithOtp
   request, however many signed-out notifications have bound the form *)
OneRequestPerSubmit ==
  [][ \A email \in Emails :
        submitAuthForm(email) => otpRequests' <= otpRequests + 1 ]_vars

(* signing in: the two loads and their answers, during a visit *)
NotesTables == { {}, {<<"a", "met at the demo day">>} }

InitStorage ==
  /\ InitGraph({Null}, {<<>>, <<"b">>}, ValidDatasets)
  /\ distCall = NoCall
  /\ notesTable \in NotesTables
  /\ suggestCall = NoSuggestCall

NextStorage ==
  \/ StartOf({"founder"}, Outcomes, {1})
  \/ handleSignedInStarts
  \/ \E outcome \in {"rows", "error"} : loadWatchlistFromStorage(outcome)
  \/ \E outcome \in {"rows", "error"} : loadNotesFromStorage(outcome)

SpecStorage == InitStorage /\ [][NextStorage]_vars

(* C37: when the watchlist has been loaded from the table and the notes
   fetch has failed, in either order of the two answers, the watchlist in
   memory is still the loaded one; likewise the notes loaded from the table
   survive a failed watchlist fetch *)
FailedFetchKeepsOtherLoad ==
  /\ (loads.watchlist = "rows" /\ loads.notes = "error")
        => { watchlist[i] : i \in 1..Len(watchlist) } = watchlistsTable
  /\ (loads.notes = "rows" /\ loads.watchlist = "error")
        => notes = notesTable

(* the watchlist buttons on a first visit: node clicks, the panels' buttons *)
NextList ==
  \/ StartOf({"founder"}, {"rows"}, {1})
  \/ \E i \in 1..Len(nodes) : nodeMouseDown(i, <<50, 60>>)
  \/ \E i \in 1..Len(nodes) : svgMouseUp(i, <<50, 60>>)
  \/ Panels

SpecList == InitFresh /\ [][NextList]_vars

(* C38: from an empty watchlist, no sequence of additions and removals
   leaves two entries with the same id; adding an id already on the
   watchlist changes nothing and issues no save; removing the id of the
   selected node clears the selection *)
WatchlistOperations ==
  [][ /\ \A i, j \in 1..Len(watchlist') : watchlist'[i] = watchlist'[j] => i = j
      /\ (addToWatchlist /\ \E i \in 1..Len(watchlist) : watchlist[i] = detailsPanel.a)
           => /\ UNCHANGED <<watchlist, watchlistsTable, watchlistPanel, selVars>>
              /\ savesIssued' = 0
      /\ \A id \in DataNodeIds :
           (removeFromWatchlist(id) /\ selectedNode = id)
             => /\ selectedNode' = Null
                /\ selectedLink' = NoLink
                /\ ~ \E i \in 1..Len(watchlist') : watchlist'[i] = id ]_vars

(* an id on the watchlist has been added once more: nothing was saved *)
RepeatedAddKeptWatchlist ==
  /\ watchlist # <<>>
  /\ detailsPanel.kind = "node"
  /\ watchlist[Len(watchlist)] = detailsPanel.a
  /\ savesIssued = 0

----------------------------------------------------------------------------
(* Suggestions *)

(* a node descriptor as updateSuggestionsPanel reads it *)
TypedNode(i, t, ints) == [id |-> i, type |-> t, interests |-> ints]

(* String.prototype.toLowerCase on the interests of the datasets below *)
toLowerCase(str) == IF str = "AI" THEN "ai" ELSE str

(* degreeMap[id] || 0: one for every link end at the node *)
degreeOf(ls, id) ==
  Cardinality({ i \in 1..Len(ls) : ls[i].source = id })
    + Cardinality({ i \in 1..Len(ls) : ls[i].target = id })

(* the ids next to an item of the watchlist w in the neighbour map *)
watchNeighbours(ls, w) ==
  { pr[2] : pr \in { q \in buildNeighbourMap(ls) :
                       \E i \in 1..Len(w) : w[i] = q[1] } }

(* the interests, in lower case, of the first node found for every item of
   the watchlist *)
watchInterests(ns, w) ==
  UNION { LET found == { k \in 1..Len(ns) : ns[k].id = w[i] }
          IN  IF found = {} THEN {}
              ELSE LET wn == ns[CHOOSE k \in found : \A m \in found : k <= m]
                   IN  { toLowerCase(wn.interests[j]) : j \in 1..Len(wn.interests) }
        : i \in 1..Len(w) }

(* sharedCount: the entries of n.interests found among the watchlist's *)
sharedCount(n, wi) ==
  Cardinality({ j \in 1..Len(n.interests) : toLowerCase(n.interests[j]) \in wi })

(* the score of a candidate, in halves of a point *)
scoreOf(n, ns, ls, w, p) ==
  (IF n.id \in watchNeighbours(ls, w) THEN 10 ELSE 0)
    + degreeOf(ls, n.id)
    + 4 * sharedCount(n, watchInterests(ns, w))
    + (IF p # Null /\ n.type = p THEN 2 ELSE 0)

(* Array.prototype.sort with (a, b) => b.score - a.score: stable, the
   higher score first *)
RECURSIVE sortByScore(_)
sortByScore(es) ==
  IF es = <<>> THEN <<>>
  ELSE LET rest == sortByScore(SubSeq(es, 1, Len(es) - 1))
           e == es[Len(es)]
           before == { k \in 1..Len(rest) : rest[k].score >= e.score }
           at == IF before = {} THEN 0 ELSE CHOOSE k \in before : \A m \in before : m <= k
       IN  SubSeq(rest, 1, at) \o <<e>> \o SubSeq(rest, at + 1, Len(rest))

(* the list shown by updateSuggestionsPanel: nothing without a persona;
   otherwise the nodes off the watchlist with a positive score, sorted,
   the first five *)
updateSuggestionsPanel(ns, ls, w, p) ==
  IF p = Null THEN <<>>
  ELSE LET offList == SelectSeq(ns, LAMBDA n : ~ \E i \in 1..Len(w) : w[i] = n.id)
           scored == [k \in 1..Len(offList) |->
                        [node |-> offList[k],
                         score |-> scoreOf(offList[k], ns, ls, w, p)]]
           candidates == SelectSeq(scored, LAMBDA e : e.score > 0)
           sorted == sortByScore(candidates)
       IN  SubSeq(sorted, 1, IF Len(sorted) < 5 THEN Len(sorted) ELSE 5)

updateSuggestionsPanelReturns ==
  /\ ~suggestCall.returned
  /\ suggestCall' =
       [suggestCall EXCEPT !.returned = TRUE,
                           !.top = updateSuggestionsPanel(suggestCall.nodes, suggestCall.links,
                                                          suggestCall.watchlist,
                                                          suggestCall.persona)]
  /\ UNCHANGED <<lifeVars, dataVars, watchVars, selVars, rendered, neighbourMap, radii,
                 distCall, signVars, savesIssued, nodes, links, drawn, simVars, viewVars,
                 pointerVars, gesture, nInput>>

(* the nodes of data.js, without interests, and three rows of the community
   table as loadCommunityData maps them, one of them with an interest
   entered twice *)
SuggestDatasets ==
  { [nodes |-> <<TypedNode("a", "startup", <<>>), TypedNode("b", "investor", <<>>),
                 TypedNode("c", "startup", <<>>), TypedNode("d", "university", <<"AI">>),
                 TypedNode("p1", "person", <<"ai">>),
                 TypedNode("p2", "person", <<"ai", "ai">>),
                 TypedNode("p3", "person", <<"bio", "ai">>)>>,
     links |-> <<DLink("a", "b"), DLink("c", "b"), DLink("d", "b")>>],
    [nodes |-> <<TypedNode("a", "startup", <<>>), TypedNode("b", "investor", <<>>)>>,
     links |-> <<DLink("a", "b")>>] }

SuggestWatchlists(ns) ==
  LET ids == { ns[k].id : k \in 1..Len(ns) } \cup {"missing"}
  IN  {<<>>} \cup { <<x>> : x \in ids }
        \cup { <<x, y>> : x \in ids, y \in ids \ {"a"} }

InitSuggest ==
  /\ InitGraph({Null}, {<<>>}, {PairDataset})
  /\ distCall = NoCall
  /\ notesTable = {}
  /\ \E d \in SuggestDatasets :
       \E w \in SuggestWatchlists(d.nodes) :
         \E p \in {Null, "founder", "investor"} :
           /\ \A i, j \in 1..Len(w) : w[i] = w[j] => i = j
           /\ suggestCall = [nodes |-> d.nodes, links |-> d.links, watchlist |-> w,
                             persona |-> p, returned |-> FALSE, top |-> <<>>]

NextSuggest == updateSuggestionsPanelReturns

SpecSuggest == InitSuggest /\ [][NextSuggest]_vars

(* the score as the text gives it, in halves of a point: 5 for a neighbour
   of a watchlist item, 0.5 for every link at the node, 2 for every
   interest shared with the watchlist, 1 for the persona's type *)
StatedScore(n, ns, ls, w, p) ==
  LET watchIds == { w[i] : i \in 1..Len(w) }
      own == { toLowerCase(n.interests[j]) : j \in 1..Len(n.interests) }
  IN  (IF \E i \in 1..Len(ls) :
            \/ ls[i].source = n.id /\ ls[i].target \in watchIds
            \/ ls[i].target = n.id /\ ls[i].source \in watchIds
       THEN 10 ELSE 0)
        + Cardinality({ i \in 1..Len(ls) : n.id \in {ls[i].source, ls[i].target} })
        + 4 * Cardinality(own \cap watchInterests(ns, w))
        + (IF n.type = p THEN 2 ELSE 0)

(* C39: the suggestions list has at most five entries, none of them on the
   watchlist, each with a positive score, in non-increasing order of the
   score: 5 for a neighbour of a watchlist item, 0.5 per incident link, 2
   per interest shared with the watchlist, 1 for the persona's type *)
SuggestionsRanked ==
  suggestCall.returned =>
    LET c == suggestCall
        st(k) == StatedScore(c.top[k].node, c.nodes, c.links, c.watchlist, c.persona)
    IN  /\ Len(c.top) <= 5
        /\ \A k \in 1..Len(c.top) :
             /\ ~ \E i \in 1..Len(c.watchlist) : c.watchlist[i] = c.top[k].node.id
             /\ st(k) > 0
        /\ \A k \in 1..(Len(c.top) - 1) : st(k) >= st(k + 1)

====
